---- MODULE Spec2Model ----
(***************************************************************************)
(* A model of the Home Assistant language server                           *)
(* (ha_opencode/rootfs/opt/ha-lsp-server/server.js):                       *)
(*   - HomeAssistantClient: the TTL cache with stale-on-error fallback;    *)
(*   - the debounced diagnostics of documents.onDidChangeContent and the   *)
(*     asynchronous validateDocument passes it starts;                     *)
(*   - YamlContextAnalyzer: the text scans, on texts held as sequences of  *)
(*     one-character strings.                                              *)
(* Time is in milliseconds, as Date.now() and setTimeout count it.         *)
(***************************************************************************)
EXTENDS Integers, Sequences, FiniteSets, TLC

\* ------------------------------------------------------------------------
\* Program constants
\* ------------------------------------------------------------------------
CACHE_TTL == 60000

DEBOUNCE_MS == 500

\* Map.get of a key that was never set gives undefined, which is falsy, as
\* is the number 0: isCacheValid treats both alike.
NoTimestamp == 0

Undefined == "undefined"

\* What the floors and labels fetchers return when their query fails.
EmptyList == "[]"

\* ------------------------------------------------------------------------
\* Texts: a text is a sequence of one-character strings. Offsets and
\* positions count from 0, as String and TextDocument do.
\* ------------------------------------------------------------------------
LowerSeq ==
    <<"a", "b", "c", "d", "e", "f", "g", "h", "i", "j", "k", "l", "m",
      "n", "o", "p", "q", "r", "s", "t", "u", "v", "w", "x", "y", "z">>

UpperSeq ==
    <<"A", "B", "C", "D", "E", "F", "G", "H", "I", "J", "K", "L", "M",
      "N", "O", "P", "Q", "R", "S", "T", "U", "V", "W", "X", "Y", "Z">>

LowerCase == {LowerSeq[i] : i \in 1..Len(LowerSeq)}

UpperCase == {UpperSeq[i] : i \in 1..Len(UpperSeq)}

Digit == {"0", "1", "2", "3", "4", "5", "6", "7", "8", "9"}

\* \s
WhiteSpace == {" ", "\t", "\n", "\r", "\f"}

\* [a-z_] under the i flag
IdStart == LowerCase \cup UpperCase \cup {"_"}

\* [a-z0-9_] under the i flag, which is also \w
IdRest == LowerCase \cup UpperCase \cup Digit \cup {"_"}

\* [\w.]
WordDot == IdRest \cup {"."}

Quote == {"'", "\""}

ToLower(c) ==
    IF c \in UpperCase
    THEN LowerSeq[CHOOSE i \in 1..Len(UpperSeq) : UpperSeq[i] = c]
    ELSE c

\* text.slice(from, to)
Slice(t, from, to) == SubSeq(t, from + 1, to)

\* The literal lit stands at offset i of t.
LitAt(t, i, lit) ==
    /\ i + Len(lit) <= Len(t)
    /\ \A k \in 1..Len(lit) : t[i + k] = lit[k]

\* The same under the i flag; lit is in lower case.
LitAtCI(t, i, lit) ==
    /\ i + Len(lit) <= Len(t)
    /\ \A k \in 1..Len(lit) : ToLower(t[i + k]) = lit[k]

\* The end of the longest run of characters of class cls that starts at
\* offset i: what a greedy cls* consumes.
SpanEnd(t, i, cls) ==
    IF i >= Len(t) THEN i
    ELSE CHOOSE j \in i..Len(t) :
            /\ \A k \in (i + 1)..j : t[k] \in cls
            /\ (j = Len(t) \/ t[j + 1] \notin cls)

\* The end of the longest run of characters outside cls that starts at i.
SpanEndNot(t, i, cls) ==
    IF i >= Len(t) THEN i
    ELSE CHOOSE j \in i..Len(t) :
            /\ \A k \in (i + 1)..j : t[k] \notin cls
            /\ (j = Len(t) \/ t[j + 1] \in cls)

\* hay.indexOf(needle)
IndexOf(hay, needle) ==
    LET hits == {k \in 0..(Len(hay) - Len(needle)) : LitAt(hay, k, needle)}
    IN  IF hits = {} THEN -1
        ELSE CHOOSE k \in hits : \A h \in hits : k <= h

\* hay.lastIndexOf(needle)
LastIndexOf(hay, needle) ==
    LET hits == {k \in 0..(Len(hay) - Len(needle)) : LitAt(hay, k, needle)}
    IN  IF hits = {} THEN -1
        ELSE CHOOSE k \in hits : \A h \in hits : k >= h

\* TextDocument.positionAt(offset), for texts whose line breaks are "\n".
positionAt(t, offset) ==
    LET o == IF offset > Len(t) THEN Len(t) ELSE IF offset < 0 THEN 0 ELSE offset
        breaks == {k \in 1..o : t[k] = "\n"}
        lineStart == IF breaks = {} THEN 0
                     ELSE CHOOSE k \in breaks : \A h \in breaks : k >= h
    IN  [line |-> Cardinality(breaks), character |-> o - lineStart]

\* text.split("\n")
RECURSIVE SplitLines(_)
SplitLines(t) ==
    LET k == IndexOf(t, <<"\n">>)
    IN  IF k < 0 THEN <<t>>
        ELSE <<Slice(t, 0, k)>> \o SplitLines(Slice(t, k + 1, Len(t)))

\* TextDocument.offsetAt(position)
offsetAt(t, position) ==
    LET lines == SplitLines(t)
        RECURSIVE Before(_)
        Before(n) == IF n = 0 THEN 0 ELSE Before(n - 1) + Len(lines[n]) + 1
    IN  IF position.line >= Len(lines) THEN Len(t)
        ELSE LET start == Before(position.line)
                 len == Len(lines[position.line + 1])
             IN  start + (IF position.character > len THEN len ELSE position.character)

\* ------------------------------------------------------------------------
\* The regular expressions of YamlContextAnalyzer. A match is the record
\* [index, end, gs, ge]: match.index, the offset after match[0], and the
\* offsets where the capture group match[1] starts and ends.
\* ------------------------------------------------------------------------
NoMatch == [index |-> -1, end |-> -1, gs |-> -1, ge |-> -1]

L_entity_id == <<"e", "n", "t", "i", "t", "y", "_", "i", "d", ":">>

L_service == <<"s", "e", "r", "v", "i", "c", "e", ":">>

L_action == <<"a", "c", "t", "i", "o", "n", ":">>

L_states == <<"s", "t", "a", "t", "e", "s", "(">>

L_is_state == <<"i", "s", "_", "s", "t", "a", "t", "e", "(">>

L_include == <<"!", "i", "n", "c", "l", "u", "d", "e">>

L_platform == <<"p", "l", "a", "t", "f", "o", "r", "m", ":">>

\* [a-z_]+\.[a-z0-9_]+ at offset b, under the i flag: its end, or -1.
IdEnd(t, b) ==
    LET Name(c) ==
            LET Close(d) ==
                    IF c > b /\ c < Len(t) /\ t[c + 1] = "." /\ d > c + 1 THEN d ELSE -1
            IN  Close(SpanEnd(t, c + 1, IdRest))
    IN  Name(SpanEnd(t, b, IdStart))

\* /entity_id:\s*([a-z_]+\.[a-z0-9_]+)/gi and
\* /(?:service|action):\s*([a-z_]+\.[a-z0-9_]+)/gi, after their keyword.
KeyValueAt(t, i, a) ==
    LET Value(b) ==
            LET Close(d) ==
                    IF d >= 0 THEN [index |-> i, end |-> d, gs |-> b, ge |-> d]
                    ELSE NoMatch
            IN  Close(IdEnd(t, b))
    IN  Value(SpanEnd(t, a, WhiteSpace))

\* /states\(['"]([a-z_]+\.[a-z0-9_]+)['"]\)/gi (closing = TRUE) and
\* /is_state\(['"]([a-z_]+\.[a-z0-9_]+)['"]/gi, after their keyword.
CallAt(t, i, a, closing) ==
    IF a < Len(t) /\ t[a + 1] \in Quote
    THEN LET Close(d) ==
                 IF /\ d >= 0 /\ d < Len(t) /\ t[d + 1] \in Quote
                    /\ (closing => (d + 1 < Len(t) /\ t[d + 2] = ")"))
                 THEN [index |-> i, end |-> IF closing THEN d + 2 ELSE d + 1,
                       gs |-> a + 1, ge |-> d]
                 ELSE NoMatch
         IN  Close(IdEnd(t, a + 1))
    ELSE NoMatch

\* /-\s+([a-z_]+\.[a-z0-9_]+)/gi
ItemAt(t, i) ==
    IF LitAt(t, i, <<"-">>)
    THEN LET Value(b) ==
                 LET Close(d) ==
                         IF b > i + 1 /\ d >= 0
                         THEN [index |-> i, end |-> d, gs |-> b, ge |-> d]
                         ELSE NoMatch
                 IN  Close(IdEnd(t, b))
         IN  Value(SpanEnd(t, i + 1, WhiteSpace))
    ELSE NoMatch

\* (\s+-\s+[a-z_]+\.[a-z0-9_]+\s*)+ from offset w, where the white space of
\* the first item starts: the end of the last item's \s*, or -1 when not even
\* one item stands there. A further item needs at least one white space
\* before its dash, which the \s* of the item before it gives back.
RECURSIVE ItemsEnd(_, _)
ItemsEnd(t, w) ==
    LET Item(b) ==
            LET Rest(m) ==
                    IF b > w /\ m.index >= 0
                    THEN LET Last(more) ==
                                 IF more >= 0 THEN more
                                 ELSE SpanEnd(t, m.end, WhiteSpace)
                         IN  Last(ItemsEnd(t, m.end))
                    ELSE -1
            IN  Rest(ItemAt(t, b))
    IN  Item(SpanEnd(t, w, WhiteSpace))

\* /entity_id:\s*\n(\s+-\s+[a-z_]+\.[a-z0-9_]+\s*)+/gi. The greedy \s* takes
\* the whole white space after the colon and gives back up to a line break
\* that leaves at least one white space for the first item.
ListAt(t, i) ==
    LET a == i + Len(L_entity_id)
        Items(b) ==
            LET Close(e) ==
                    IF /\ LitAtCI(t, i, L_entity_id)
                       /\ {k \in (a + 1)..(b - 1) : t[k] = "\n"} # {}
                       /\ e >= 0
                    THEN [index |-> i, end |-> e, gs |-> b - 1, ge |-> e]
                    ELSE NoMatch
            IN  Close(ItemsEnd(t, b - 1))
    IN  Items(SpanEnd(t, a, WhiteSpace))

\* /!include\s+([^\s\n]+)/g
IncludeAt(t, i) ==
    IF LitAt(t, i, L_include)
    THEN LET a == i + Len(L_include)
             Space(b) ==
                 LET Path(d) ==
                         IF b > a /\ d > b
                         THEN [index |-> i, end |-> d, gs |-> b, ge |-> d]
                         ELSE NoMatch
                 IN  Path(SpanEndNot(t, b, WhiteSpace))
         IN  Space(SpanEnd(t, a, WhiteSpace))
    ELSE NoMatch

MatchAt(pat, t, i) ==
    CASE pat = "entityId" ->
            IF LitAtCI(t, i, L_entity_id)
            THEN KeyValueAt(t, i, i + Len(L_entity_id)) ELSE NoMatch
      [] pat = "service" ->
            IF LitAtCI(t, i, L_service) THEN KeyValueAt(t, i, i + Len(L_service))
            ELSE IF LitAtCI(t, i, L_action) THEN KeyValueAt(t, i, i + Len(L_action))
            ELSE NoMatch
      [] pat = "states" ->
            IF LitAtCI(t, i, L_states)
            THEN CallAt(t, i, i + Len(L_states), TRUE) ELSE NoMatch
      [] pat = "isState" ->
            IF LitAtCI(t, i, L_is_state)
            THEN CallAt(t, i, i + Len(L_is_state), FALSE) ELSE NoMatch
      [] pat = "list" -> ListAt(t, i)
      [] pat = "item" -> ItemAt(t, i)
      [] pat = "include" -> IncludeAt(t, i)

\* The loop `while ((match = pattern.exec(text)) !== null)` of a g pattern,
\* from lastIndex i: the matches, leftmost first, each search resuming where
\* the match before it ended.
RECURSIVE ExecAll(_, _, _)
ExecAll(pat, t, i) ==
    IF i >= Len(t) THEN <<>>
    ELSE LET Found(m) ==
                 IF m.index >= 0 THEN <<m>> \o ExecAll(pat, t, m.end)
                 ELSE ExecAll(pat, t, i + 1)
         IN  Found(MatchAt(pat, t, i))

\* ------------------------------------------------------------------------
\* YamlContextAnalyzer: the reference scans
\* ------------------------------------------------------------------------
Range(t, from, to) == [start |-> positionAt(t, from), end |-> positionAt(t, to)]

\* The reference of one match: the range starts where match[1] is first found
\* in match[0] (match.index + match[0].indexOf(match[1])).
EntityRef(t, m, base, jinja) ==
    LET id == Slice(t, m.gs, m.ge)
        startOffset == base + m.index + IndexOf(Slice(t, m.index, m.end), id)
    IN  [entityId |-> id, startOffset |-> startOffset, inJinja |-> jinja]

\* The items of one match of the list pattern: the item pattern is run over
\* match[0], and its offsets are moved by match.index.
ListItemRefs(t, m) ==
    LET listContent == Slice(t, m.index, m.end)
        Refs(items) ==
            [k \in 1..Len(items) |-> EntityRef(listContent, items[k], m.index, FALSE)]
    IN  Refs(ExecAll("item", listContent, 0))

RECURSIVE Flatten(_)
Flatten(ss) == IF ss = <<>> THEN <<>> ELSE Head(ss) \o Flatten(Tail(ss))

\* findEntityReferences, each range kept as the offset it starts at.
EntityRefOffsets(t) ==
    LET Refs(ms, jinja) == [k \in 1..Len(ms) |-> EntityRef(t, ms[k], 0, jinja)]
        Lists(ms) == Flatten([k \in 1..Len(ms) |-> ListItemRefs(t, ms[k])])
    IN  Refs(ExecAll("entityId", t, 0), FALSE)
        \o Lists(ExecAll("list", t, 0))
        \o Refs(ExecAll("states", t, 0), TRUE)
        \o Refs(ExecAll("isState", t, 0), TRUE)

findEntityReferences(t) ==
    LET Ranged(refs) ==
            [k \in 1..Len(refs) |->
                [entityId |-> refs[k].entityId,
                 range |-> Range(t, refs[k].startOffset,
                                 refs[k].startOffset + Len(refs[k].entityId)),
                 inJinja |-> refs[k].inJinja]]
    IN  Ranged(EntityRefOffsets(t))

findServiceReferences(t) ==
    LET Ref(m) ==
            LET service == Slice(t, m.gs, m.ge)
                startOffset == m.index + IndexOf(Slice(t, m.index, m.end), service)
            IN  [service |-> service,
                 range |-> Range(t, startOffset, startOffset + Len(service))]
        Refs(ms) == [k \in 1..Len(ms) |-> Ref(ms[k])]
    IN  Refs(ExecAll("service", t, 0))

findIncludeReferences(t) ==
    LET Ref(m) ==
            LET filePath == Slice(t, m.gs, m.ge)
                startOffset == m.index + IndexOf(Slice(t, m.index, m.end), filePath)
            IN  [path |-> filePath,
                 range |-> Range(t, startOffset, startOffset + Len(filePath))]
        Refs(ms) == [k \in 1..Len(ms) |-> Ref(ms[k])]
    IN  Refs(ExecAll("include", t, 0))

\* ------------------------------------------------------------------------
\* YamlContextAnalyzer.analyzeContext
\* ------------------------------------------------------------------------
\* line.match(/^(\s*)/)?.[1].length || 0
Indent(line) == SpanEnd(line, 0, WhiteSpace \ {"\n"})

\* prevLine.match(/^(\s*)([a-z_]+)\s*:/i): the key, or << >> when the line
\* does not match (a key has at least one character).
KeyOf(line) ==
    LET a == Indent(line)
        b == SpanEnd(line, a, IdStart)
        c == SpanEnd(line, b, WhiteSpace)
    IN  IF b > a /\ c < Len(line) /\ line[c + 1] = ":" THEN Slice(line, a, b) ELSE <<>>

\* line.match(/platform:\s*(\w+)/) and line.match(/service:\s*([\w.]+)/):
\* the capture group of the leftmost match, or << >> when there is none.
FirstValue(line, lit, cls) ==
    LET hit(i) == /\ LitAt(line, i, lit)
                  /\ SpanEnd(line, SpanEnd(line, i + Len(lit), WhiteSpace), cls)
                        > SpanEnd(line, i + Len(lit), WhiteSpace)
        hits == {i \in 0..Len(line) : hit(i)}
    IN  IF hits = {} THEN <<>>
        ELSE LET i == CHOOSE h \in hits : \A g \in hits : h <= g
                 b == SpanEnd(line, i + Len(lit), WhiteSpace)
             IN  Slice(line, b, SpanEnd(line, b, cls))

\* The walk upward from line n (counted from 1; the cursor's line is n + 1)
\* that registers every key line whose indent is less than currentIndent.
\* The statement `currentIndent === prevIndent;` compares and changes
\* nothing, so the threshold stays the indent of the cursor's line prefix.
RECURSIVE ParentKeysAbove(_, _, _)
ParentKeysAbove(lines, n, currentIndent) ==
    IF n = 0 THEN <<>>
    ELSE IF KeyOf(lines[n]) # <<>> /\ Indent(lines[n]) < currentIndent
         THEN ParentKeysAbove(lines, n - 1, currentIndent) \o <<KeyOf(lines[n])>>
         ELSE ParentKeysAbove(lines, n - 1, currentIndent)

\* The loops `for (let i = position.line; i >= 0; i--)`: the value found on
\* the nearest line at or above line n (counted from 1), or << >>.
RECURSIVE NearestValue(_, _, _, _)
NearestValue(lines, n, lit, cls) ==
    IF n = 0 THEN <<>>
    ELSE IF FirstValue(lines[n], lit, cls) # <<>> THEN FirstValue(lines[n], lit, cls)
         ELSE NearestValue(lines, n - 1, lit, cls)

InSeq(x, xs) == \E k \in 1..Len(xs) : xs[k] = x

K_trigger == <<"t", "r", "i", "g", "g", "e", "r">>

K_triggers == K_trigger \o <<"s">>

K_action == <<"a", "c", "t", "i", "o", "n">>

K_actions == K_action \o <<"s">>

\* String.prototype.trim
Trim(s) ==
    LET a == SpanEnd(s, 0, WhiteSpace)
        Last(n) == CHOOSE j \in a..n :
                      /\ \A k \in (j + 1)..n : s[k] \in WhiteSpace
                      /\ (j = a \/ s[j] \notin WhiteSpace)
    IN  Slice(s, a, Last(Len(s)))

\* s.replace(/^-\s*/, "")
StripDash(s) ==
    IF Len(s) > 0 /\ s[1] = "-" THEN Slice(s, SpanEnd(s, 1, WhiteSpace), Len(s)) ELSE s

\* String.prototype.toLowerCase
toLowerCase(s) == [k \in 1..Len(s) |-> ToLower(s[k])]

\* A bug the Jinja detection could have: the first markers instead of the
\* last ones.
inJinjaFirstMarkers(lineBeforeCursor) ==
    IndexOf(lineBeforeCursor, <<"{", "{">>) > IndexOf(lineBeforeCursor, <<"}", "}">>)

\* jinjaStart > jinjaEnd, both a lastIndexOf in lineBeforeCursor
inJinjaAt(lineBeforeCursor) ==
    LastIndexOf(lineBeforeCursor, <<"{", "{">>)
        > LastIndexOf(lineBeforeCursor, <<"}", "}">>)

\* analyzeContext(document, position). threw: a TypeError leaves the
\* function, because lines[i] is undefined for a line index past the text.
analyzeContext(t, position) ==
    LET lines == SplitLines(t)
        line == IF position.line < Len(lines) THEN lines[position.line + 1] ELSE <<>>
        lineBeforeCursor ==
            Slice(line, 0, IF position.character > Len(line) THEN Len(line)
                           ELSE position.character)
        colonIndex == IndexOf(lineBeforeCursor, <<":">>)
        currentIndent == Indent(lineBeforeCursor)
        walkThrows == position.line - 1 >= Len(lines)
        parentKeys == IF walkThrows THEN <<>>
                      ELSE ParentKeysAbove(lines, position.line, currentIndent)
        inTrigger == InSeq(K_trigger, parentKeys) \/ InSeq(K_triggers, parentKeys)
        inAction == InSeq(K_action, parentKeys) \/ InSeq(K_actions, parentKeys)
        scanThrows == (inTrigger \/ inAction) /\ position.line >= Len(lines)
        service == NearestValue(lines, position.line + 1, L_service, WordDot)
    IN  [threw |-> walkThrows \/ scanThrows,
         lineBeforeCursor |-> lineBeforeCursor,
         inJinja |-> inJinjaAt(lineBeforeCursor),
         inKey |-> colonIndex = -1,
         inValue |-> colonIndex # -1,
         key |-> IF colonIndex = -1 THEN <<>>
                 ELSE StripDash(Trim(Slice(lineBeforeCursor, 0, colonIndex))),
         inList |-> LET a == Indent(lineBeforeCursor)
                    IN  a < Len(lineBeforeCursor) /\ lineBeforeCursor[a + 1] = "-",
         parentKeys |-> parentKeys,
         parentKey |-> IF parentKeys = <<>> THEN <<>> ELSE parentKeys[Len(parentKeys)],
         triggerType |-> IF inTrigger /\ ~scanThrows
                         THEN NearestValue(lines, position.line + 1, L_platform, IdRest)
                         ELSE <<>>,
         domain |-> IF inAction /\ ~scanThrows /\ service # <<>>
                    THEN LET dot == IndexOf(service, <<".">>)
                         IN  IF dot < 0 THEN service ELSE Slice(service, 0, dot)
                    ELSE <<>>]

\* ------------------------------------------------------------------------
\* Paths (url.fileURLToPath and path.dirname, isAbsolute, resolve, as far
\* as POSIX paths without percent escapes go)
\* ------------------------------------------------------------------------
L_file_scheme == <<"f", "i", "l", "e", ":", "/", "/">>

\* fileURLToPath throws for any other scheme.
IsFileUrl(uri) == LitAt(uri, 0, L_file_scheme)

fileURLToPath(uri) == Slice(uri, Len(L_file_scheme), Len(uri))

dirname(path) ==
    LET k == LastIndexOf(path, <<"/">>)
    IN  IF k < 0 THEN <<".">> ELSE IF k = 0 THEN <<"/">> ELSE Slice(path, 0, k)

isAbsolute(path) == LitAt(path, 0, <<"/">>)

RECURSIVE SplitPath(_)
SplitPath(path) ==
    LET k == IndexOf(path, <<"/">>)
    IN  IF k < 0 THEN <<path>>
        ELSE <<Slice(path, 0, k)>> \o SplitPath(Slice(path, k + 1, Len(path)))

\* The segments of a path with "", "." and ".." resolved, left to right.
RECURSIVE NormalSegments(_, _)
NormalSegments(segs, acc) ==
    IF segs = <<>> THEN acc
    ELSE LET x == Head(segs)
         IN  IF x = <<>> \/ x = <<".">> THEN NormalSegments(Tail(segs), acc)
             ELSE IF x = <<".", ".">>
                  THEN NormalSegments(Tail(segs),
                                      IF acc = <<>> THEN acc
                                      ELSE SubSeq(acc, 1, Len(acc) - 1))
                  ELSE NormalSegments(Tail(segs), Append(acc, x))

RECURSIVE JoinPath(_)
JoinPath(segs) ==
    IF segs = <<>> THEN <<>> ELSE <<"/">> \o Head(segs) \o JoinPath(Tail(segs))

\* resolve(docDir, p) for an absolute docDir
resolve(docDir, p) ==
    LET joined == IF isAbsolute(p) THEN p ELSE docDir \o <<"/">> \o p
        segs == NormalSegments(SplitPath(joined), <<>>)
    IN  IF segs = <<>> THEN <<"/">> ELSE JoinPath(segs)

\* ------------------------------------------------------------------------
\* validateDocument: its four checks
\* ------------------------------------------------------------------------
\* yaml.parse is a library. Of the documents it rejects the model knows one
\* kind: a flow sequence that is opened with "[" and never closed. The error
\* carries linePos (1-based line and column), here that of the bracket.
parseYamlThrows(t) ==
    \E k \in 1..Len(t) : t[k] = "[" /\ \A j \in (k + 1)..Len(t) : t[j] # "]"

parseYamlErrorPos(t) ==
    LET k == CHOOSE k \in 1..Len(t) : t[k] = "[" /\ \A j \in (k + 1)..Len(t) : t[j] # "]"
        pos == positionAt(t, k - 1)
    IN  [line |-> pos.line + 1, col |-> pos.character + 1]

\* A bug the entity check could have: the test of entityMap.has negated.
EntityDiagnosticsNegated(refs, entityIds) ==
    LET Known(ref) == ref.entityId \in entityIds
        known == SelectSeq(refs, Known)
    IN  [k \in 1..Len(known) |->
            [severity |-> "warning", code |-> "unknown-entity",
             range |-> known[k].range, subject |-> known[k].entityId]]

\* for (const ref of entityRefs) if (!entityMap.has(ref.entityId)) ...
EntityDiagnostics(refs, entityIds) ==
    LET Unknown(ref) == ref.entityId \notin entityIds
        unknown == SelectSeq(refs, Unknown)
    IN  [k \in 1..Len(unknown) |->
            [severity |-> "warning", code |-> "unknown-entity",
             range |-> unknown[k].range, subject |-> unknown[k].entityId]]

\* for (const ref of serviceRefs) if (!serviceSet.has(ref.service)) ...
ServiceDiagnostics(refs, serviceSet) ==
    LET Unknown(ref) == ref.service \notin serviceSet
        unknown == SelectSeq(refs, Unknown)
    IN  [k \in 1..Len(unknown) |->
            [severity |-> "warning", code |-> "unknown-service",
             range |-> unknown[k].range, subject |-> unknown[k].service]]

\* The path existsSync is asked about for an include of a document.
IncludePath(uri, path) ==
    IF isAbsolute(path) THEN path ELSE resolve(dirname(fileURLToPath(uri)), path)

\* for (const ref of includeRefs) if (!existsSync(includePath)) ...
IncludeDiagnostics(refs, uri, existing) ==
    LET Missing(ref) == IncludePath(uri, ref.path) \notin existing
        missing == SelectSeq(refs, Missing)
    IN  [k \in 1..Len(missing) |->
            [severity |-> "error", code |-> "include-not-found",
             range |-> missing[k].range, subject |-> missing[k].path]]

\* try { parseYaml(document.getText()) } catch (yamlError) ...
SyntaxDiagnostics(t) ==
    IF parseYamlThrows(t)
    THEN LET errorPos == parseYamlErrorPos(t)
         IN  <<[severity |-> "error", code |-> "yaml-syntax",
                range |-> [start |-> [line |-> errorPos.line - 1,
                                      character |-> errorPos.col - 1],
                           end |-> [line |-> errorPos.line - 1,
                                    character |-> errorPos.col]],
                subject |-> <<>>]>>
    ELSE <<>>

\* The diagnostics with a given code.
WithCode(diagnostics, code) ==
    LET Has(d) == d.code = code IN SelectSeq(diagnostics, Has)

\* ------------------------------------------------------------------------
\* Bounds of the model
\* ------------------------------------------------------------------------
MaxCalls == 2

MaxTicks == 2

\* The number of lines of a text of references, and of a nested text.
MaxReferenceLines == 1

MaxStructureLines == 3

\* The content changes (didOpen, didChange) of a session.
MaxChanges == 2

\* The line indexes past the end of the text a request may name.
MaxPastEnd == 2

\* The cached reads the requests of a run make.
MaxReads == 1

\* The answers the runtime can give to a query (it changes over time).
RuntimeData == {"d1", "d2"}

Keys == {"states", "services", "config", "areas", "devices", "floors", "labels"}

\* The fetchers of getFloors and getLabels wrap their query in a try/catch.
SwallowingKeys == {"floors", "labels"}

\* The clock steps of the cache model: one millisecond, and one millisecond
\* short of the TTL, so that both sides of the expiry are reached.
CacheDeltas == {1, CACHE_TTL - 1}

\* The clock steps of a session, around the delay of the debounce.
SessionDeltas == {DEBOUNCE_MS - 1, DEBOUNCE_MS}

\* ------------------------------------------------------------------------
\* The texts the model works on
\* ------------------------------------------------------------------------
E_light_kitchen ==
    <<"l", "i", "g", "h", "t", ".", "k", "i", "t", "c", "h", "e", "n">>

E_light_nonexistent ==
    <<"l", "i", "g", "h", "t", ".", "n", "o", "n", "e", "x", "i", "s", "t",
      "e", "n", "t">>

E_sensor_t ==
    <<"s", "e", "n", "s", "o", "r", ".", "t">>

S_light_turn_on ==
    <<"l", "i", "g", "h", "t", ".", "t", "u", "r", "n", "_", "o", "n">>

S_light_turn_off ==
    <<"l", "i", "g", "h", "t", ".", "t", "u", "r", "n", "_", "o", "f", "f">>

S_switch_toggle ==
    <<"s", "w", "i", "t", "c", "h", ".", "t", "o", "g", "g", "l", "e">>

S_button_press ==
    <<"b", "u", "t", "t", "o", "n", ".", "p", "r", "e", "s", "s">>

S_input_button_press ==
    <<"i", "n", "p", "u", "t", "_", "b", "u", "t", "t", "o", "n", ".", "p", "r", "e", "s", "s">>

U_a_yaml ==
    <<"f", "i", "l", "e", ":", "/", "/", "/", "c", "o", "n", "f", "i", "g",
      "/", "a", ".", "y", "a", "m", "l">>

U_b_yml ==
    <<"f", "i", "l", "e", ":", "/", "/", "/", "c", "o", "n", "f", "i", "g",
      "/", "b", ".", "y", "m", "l">>

U_notes_txt ==
    <<"f", "i", "l", "e", ":", "/", "/", "/", "c", "o", "n", "f", "i", "g",
      "/", "n", "o", "t", "e", "s", ".", "t", "x", "t">>

R_entity_known ==
    <<"e", "n", "t", "i", "t", "y", "_", "i", "d", ":", " ", "l", "i", "g",
      "h", "t", ".", "k", "i", "t", "c", "h", "e", "n">>

R_entity_unknown ==
    <<"e", "n", "t", "i", "t", "y", "_", "i", "d", ":", " ", "l", "i", "g",
      "h", "t", ".", "n", "o", "n", "e", "x", "i", "s", "t", "e", "n", "t">>

R_entity_list ==
    <<"e", "n", "t", "i", "t", "y", "_", "i", "d", ":", "\n", " ", " ",
      "-", " ", "l", "i", "g", "h", "t", ".", "k", "i", "t", "c", "h", "e",
      "n", "\n", " ", " ", "-", " ", "s", "e", "n", "s", "o", "r", ".",
      "t">>

R_states_call ==
    <<"v", ":", " ", "{", "{", " ", "s", "t", "a", "t", "e", "s", "(", "'",
      "s", "e", "n", "s", "o", "r", ".", "t", "'", ")", " ", "}", "}">>

R_is_state_call ==
    <<"c", ":", " ", "{", "{", " ", "i", "s", "_", "s", "t", "a", "t", "e",
      "(", "\"", "l", "i", "g", "h", "t", ".", "n", "o", "n", "e", "x",
      "i", "s", "t", "e", "n", "t", "\"", ",", " ", "'", "o", "n", "'",
      ")", " ", "}", "}">>

R_service_known ==
    <<"s", "e", "r", "v", "i", "c", "e", ":", " ", "l", "i", "g", "h", "t",
      ".", "t", "u", "r", "n", "_", "o", "n">>

R_action_unknown ==
    <<"-", " ", "a", "c", "t", "i", "o", "n", ":", " ", "l", "i", "g", "h",
      "t", ".", "b", "o", "g", "u", "s">>

R_include_file ==
    <<"a", ":", " ", "!", "i", "n", "c", "l", "u", "d", "e", " ", "x", ".",
      "y", "a", "m", "l">>

R_include_include ==
    <<"b", ":", " ", "!", "i", "n", "c", "l", "u", "d", "e", " ", "i", "n",
      "c", "l", "u", "d", "e">>

R_include_absolute ==
    <<"d", ":", " ", "!", "i", "n", "c", "l", "u", "d", "e", " ", " ", "/",
      "s", "h", "a", "r", "e", "/", "y", ".", "y", "a", "m", "l">>

R_open_bracket ==
    <<"k", ":", " ", "[", "1", ",", " ", "2">>

Y_automation ==
    <<"a", "u", "t", "o", "m", "a", "t", "i", "o", "n", ":">>

Y_trigger ==
    <<" ", " ", "t", "r", "i", "g", "g", "e", "r", ":">>

Y_platform ==
    <<" ", " ", " ", " ", "p", "l", "a", "t", "f", "o", "r", "m", ":", " ",
      "t", "i", "m", "e">>

Y_sibling ==
    <<" ", " ", "b", ":", " ", "1">>

Y_action ==
    <<" ", " ", "a", "c", "t", "i", "o", "n", ":">>

Y_service ==
    <<" ", " ", " ", " ", "-", " ", "s", "e", "r", "v", "i", "c", "e", ":",
      " ", "l", "i", "g", "h", "t", ".", "t", "u", "r", "n", "_", "o", "n">>

Y_template ==
    <<" ", " ", " ", " ", "v", ":", " ", "{", "{", " ", "x", " ", "}", "}",
      " ", "{", "{", " ", "y">>

\* The entity snapshots the runtime may answer with.
Snapshots ==
    {{}, {E_light_kitchen}, {E_light_kitchen, E_sensor_t}}

\* The full names of the services of the catalog.
ServiceCatalog ==
    {S_light_turn_on, S_light_turn_off, S_switch_toggle, S_button_press,
     S_input_button_press}

\* Lines with references, for the scans and the diagnostics.
ReferenceLines ==
    {R_entity_known, R_entity_unknown, R_entity_list, R_states_call,
     R_is_state_call, R_service_known, R_action_unknown, R_include_file,
     R_include_include, R_include_absolute, R_open_bracket}

\* Lines of a nested configuration, for analyzeContext.
StructureLines ==
    {Y_automation, Y_trigger, Y_platform, Y_sibling, Y_action, Y_service, Y_template}

\* The texts of one to n lines drawn from a set of lines.
RECURSIVE TextsUpTo(_, _)
TextsUpTo(lines, n) ==
    IF n <= 1 THEN lines
    ELSE LET shorter == TextsUpTo(lines, n - 1)
         IN  shorter \cup {a \o <<"\n">> \o b : a \in shorter, b \in lines}

VARIABLES
    now,              \* Date.now()
    token,            \* SUPERVISOR_TOKEN is set
    cache,            \* HomeAssistantClient.cache
    cacheTimestamps,  \* HomeAssistantClient.cacheTimestamps
    calls,            \* getCached calls awaiting their fetcher
    nextCall,         \* the number of getCached calls made so far
    ticks,            \* the number of clock steps taken so far
    fetchCount,       \* per key, the number of fetcher invocations
    lastCall,         \* observation: the synchronous part of the last getCached
    lastResult,       \* observation: the last completion of a fetcher
    warmLog,          \* what warmCache has logged ("none": it has not run)
    files,            \* the paths that exist in the file system
    textIn,           \* the text of the document the analyzer is applied to
    reply,            \* the result of the last application of the analyzer
    uriIn,            \* the URI of the document requests are made on
    docState,         \* per document: "new", "open" or "closed"
    docText,          \* per document: the content of its TextDocument object
    docVersion,       \* per document: the number of contents it has had
    timers,           \* the setTimeout callbacks not yet run or cleared
    validationTimeout,\* the handle the last setTimeout returned (0: undefined)
    passes,           \* the validateDocument calls awaiting a fetch
    lastPub,          \* per document: the last sendDiagnostics for it
    changes,          \* the number of content changes so far
    lastChange,       \* observation: the last change of a YAML document
    lastStart,        \* observation: the last call of validateDocument
    startsSince       \* observation: the calls of validateDocument since lastChange

cacheVars ==
    <<cache, cacheTimestamps, calls, nextCall, fetchCount, lastCall, lastResult,
      warmLog>>

textVars == <<textIn, reply, uriIn>>

sessionVars ==
    <<docState, docText, docVersion, timers, validationTimeout, passes,
      lastPub, changes, lastChange, lastStart, startsSince>>

vars == <<now, token, ticks, cacheVars, files, textVars, sessionVars>>

NoReply == [kind |-> "none"]

\* ------------------------------------------------------------------------
\* The documents of a session
\* ------------------------------------------------------------------------
Docs == {"a", "b", "n"}

Uri ==
    [d \in Docs |-> CASE d = "a" -> U_a_yaml
                      [] d = "b" -> U_b_yml
                      [] OTHER -> U_notes_txt]

Contents == {"c1", "c2"}

\* c1 names an entity no snapshot has, calls a service the catalog does not
\* have and includes a file that is not there; c2 names an entity and does
\* not parse.
ContentText ==
    [c \in Contents |->
        IF c = "c1"
        THEN R_entity_unknown \o <<"\n">> \o R_action_unknown
                \o <<"\n">> \o R_include_file
        ELSE R_entity_known \o <<"\n">> \o R_open_bracket]

\* The scans of the contents.
EntityRefsOf == [c \in Contents |-> findEntityReferences(ContentText[c])]

ServiceRefsOf == [c \in Contents |-> findServiceReferences(ContentText[c])]

IncludeRefsOf == [c \in Contents |-> findIncludeReferences(ContentText[c])]

SyntaxDiagnosticsOf == [c \in Contents |-> SyntaxDiagnostics(ContentText[c])]

\* What the runtime answers in a session.
SessionData == {"d1"}

\* getEntityMap: the entity ids of an answer to GET /states.
StatesOf ==
    [d \in RuntimeData |-> IF d = "d1" THEN {E_light_kitchen} ELSE {E_sensor_t}]

\* getServiceList: the full names of an answer to GET /services.
ServicesOf ==
    [d \in RuntimeData |->
        IF d = "d1" THEN ServiceCatalog ELSE ServiceCatalog \ {S_switch_toggle}]

NoPub ==
    [by |-> "none", pass |-> 0, diagnostics |-> <<>>, content |-> "none",
     version |-> 0, failed |-> FALSE, newest |-> 0]

NoChange == [doc |-> "none", at |-> 0, burst |-> 0]

NoStart == [id |-> 0, doc |-> "none", at |-> 0]

\* No document was ever opened.
NoSession ==
    /\ docState = [d \in Docs |-> "new"]
    /\ docText = [d \in Docs |-> "none"]
    /\ docVersion = [d \in Docs |-> 0]
    /\ timers = {}
    /\ validationTimeout = 0
    /\ passes = {}
    /\ lastPub = [d \in Docs |-> NoPub]
    /\ changes = 0
    /\ lastChange = NoChange
    /\ lastStart = NoStart
    /\ startsSince = 0

\* ------------------------------------------------------------------------
\* HomeAssistantClient
\* ------------------------------------------------------------------------
NoCall ==
    [key |-> "none", outcome |-> "none", value |-> Undefined,
     withinTTL |-> FALSE, stored |-> Undefined, invoked |-> FALSE]

NoResult ==
    [key |-> "none", outcome |-> "none", value |-> Undefined,
     queryFailed |-> FALSE, fetcherFailed |-> FALSE,
     refresh |-> FALSE, hadPrior |-> FALSE, prior |-> Undefined,
     validPrior |-> FALSE,
     valueAfter |-> Undefined, timestampAfter |-> NoTimestamp]

\* The client as a value: a handler that makes several cached reads in one
\* turn passes it from one read to the next. The log of warmCache, which
\* makes four, goes with it.
Client ==
    [cache |-> cache, cacheTimestamps |-> cacheTimestamps, calls |-> calls,
     nextCall |-> nextCall, fetchCount |-> fetchCount,
     lastCall |-> lastCall, lastResult |-> lastResult, warmLog |-> warmLog]

Becomes(cl) ==
    /\ cache' = cl.cache
    /\ cacheTimestamps' = cl.cacheTimestamps
    /\ calls' = cl.calls
    /\ nextCall' = cl.nextCall
    /\ fetchCount' = cl.fetchCount
    /\ lastCall' = cl.lastCall
    /\ lastResult' = cl.lastResult
    /\ warmLog' = cl.warmLog

\* A bug isCacheValid could have: the age compared in seconds.
isCacheValidSeconds(cl, key) ==
    /\ cl.cacheTimestamps[key] # NoTimestamp
    /\ (now - cl.cacheTimestamps[key]) * 1000 < CACHE_TTL

isCacheValid(cl, key) ==
    /\ cl.cacheTimestamps[key] # NoTimestamp
    /\ (now - cl.cacheTimestamps[key]) < CACHE_TTL

cacheHas(cl, key) == cl.cache[key] # Undefined

\* A bug the fetchers of getFloors and getLabels could have: no try/catch
\* around the query.
FetcherRethrows(key, ok, data) ==
    IF ok THEN [ok |-> TRUE, data |-> data]
    ELSE [ok |-> FALSE, data |-> Undefined]

\* What the key's fetcher makes of its runtime query: the query's answer, or,
\* when the query failed, a failure, except for floors and labels, whose
\* fetchers catch it and answer the empty list.
Fetcher(key, ok, data) ==
    IF ok THEN [ok |-> TRUE, data |-> data]
    ELSE IF key \in SwallowingKeys THEN [ok |-> TRUE, data |-> EmptyList]
    ELSE [ok |-> FALSE, data |-> Undefined]

\* A bug the catch branch of getCached could have: the error is not rethrown,
\* and the caller gets cache.get(key) whatever it is.
OnFetchErrorNoThrow(cl, key) ==
    [outcome |-> "stale", value |-> cl.cache[key]]

\* The catch branch of getCached.
OnFetchError(cl, key) ==
    IF cacheHas(cl, key)
    THEN [outcome |-> "stale", value |-> cl.cache[key]]
    ELSE [outcome |-> "raised", value |-> Undefined]

\* The entry of the key is there and has expired: a getCached is a refresh.
Expired(cl, key) ==
    /\ cacheHas(cl, key)
    /\ cl.cacheTimestamps[key] # NoTimestamp
    /\ now - cl.cacheTimestamps[key] >= CACHE_TTL

\* A bug the catch branch of getCached could have: the stale answer is
\* stamped as if it had been fetched.
SettleStampsStale(cl, key, ok, data, refresh) ==
    LET f == Fetcher(key, ok, data)
        e == OnFetchError(cl, key)
        obs == [key |-> key,
                queryFailed |-> ~ok, fetcherFailed |-> ~f.ok,
                refresh |-> refresh,
                hadPrior |-> cacheHas(cl, key), prior |-> cl.cache[key],
                validPrior |-> isCacheValid(cl, key)]
    IN  IF f.ok
        THEN [cl EXCEPT
                !.cache = [@ EXCEPT ![key] = f.data],
                !.cacheTimestamps = [@ EXCEPT ![key] = now],
                !.lastResult = obs @@ [outcome |-> "fetched", value |-> f.data,
                                       valueAfter |-> f.data, timestampAfter |-> now]]
        ELSE [cl EXCEPT
                !.cacheTimestamps =
                    [@ EXCEPT ![key] = IF cacheHas(cl, key) THEN now ELSE @],
                !.lastResult = obs @@ [outcome |-> e.outcome, value |-> e.value,
                                       valueAfter |-> cl.cache[key],
                                       timestampAfter |-> cl.cacheTimestamps[key]]]

\* A bug getCached could have: one timestamp for the whole cache, so that a
\* fetch that is stored stamps every entry.
SettleStampsEveryKey(cl, key, ok, data, refresh) ==
    LET f == Fetcher(key, ok, data)
        e == OnFetchError(cl, key)
        obs == [key |-> key,
                queryFailed |-> ~ok, fetcherFailed |-> ~f.ok,
                refresh |-> refresh,
                hadPrior |-> cacheHas(cl, key), prior |-> cl.cache[key],
                validPrior |-> isCacheValid(cl, key)]
    IN  IF f.ok
        THEN [cl EXCEPT
                !.cache = [@ EXCEPT ![key] = f.data],
                !.cacheTimestamps =
                    [k \in Keys |-> IF k = key \/ cacheHas(cl, k) THEN now
                                    ELSE NoTimestamp],
                !.lastResult = obs @@ [outcome |-> "fetched", value |-> f.data,
                                       valueAfter |-> f.data, timestampAfter |-> now]]
        ELSE [cl EXCEPT
                !.lastResult = obs @@ [outcome |-> e.outcome, value |-> e.value,
                                       valueAfter |-> cl.cache[key],
                                       timestampAfter |-> cl.cacheTimestamps[key]]]

\* The rest of getCached once its fetcher has settled: `ok` and `data` are
\* the outcome of the runtime query behind the key, `refresh` tells whether
\* the call found an expired entry when it was made. The outcome and the
\* value the caller gets are in lastResult, with the entry the fetcher found
\* on settling (hadPrior, prior, validPrior) and the entry it left.
Settle(cl, key, ok, data, refresh) ==
    LET f == Fetcher(key, ok, data)
        e == OnFetchError(cl, key)
        obs == [key |-> key,
                queryFailed |-> ~ok, fetcherFailed |-> ~f.ok,
                refresh |-> refresh,
                hadPrior |-> cacheHas(cl, key), prior |-> cl.cache[key],
                validPrior |-> isCacheValid(cl, key)]
    IN  IF f.ok
        THEN [cl EXCEPT
                !.cache = [@ EXCEPT ![key] = f.data],
                !.cacheTimestamps = [@ EXCEPT ![key] = now],
                !.lastResult = obs @@ [outcome |-> "fetched", value |-> f.data,
                                       valueAfter |-> f.data, timestampAfter |-> now]]
        ELSE [cl EXCEPT
                !.lastResult = obs @@ [outcome |-> e.outcome, value |-> e.value,
                                       valueAfter |-> cl.cache[key],
                                       timestampAfter |-> cl.cacheTimestamps[key]]]

\* A bug fetch could have: no test of the token.
fetchSendsAlways(supervisorToken) == TRUE

\* fetch() sends a request only past `if (!SUPERVISOR_TOKEN) throw`.
fetchSends(supervisorToken) == supervisorToken

\* A bug getCached could have: a read that finds a fetch of its key in flight
\* joins it and invokes no fetcher of its own.
GetCachedCoalesced(cl, key) ==
    LET within == /\ cl.cacheTimestamps[key] # NoTimestamp
                  /\ now - cl.cacheTimestamps[key] < CACHE_TTL
        made == [cl EXCEPT !.nextCall = @ + 1]
    IN  IF isCacheValid(cl, key)
        THEN [made EXCEPT
                !.lastCall = [key |-> key, outcome |-> "hit",
                              value |-> cl.cache[key], withinTTL |-> within,
                              stored |-> cl.cache[key], invoked |-> FALSE]]
        ELSE IF \E c \in cl.calls : c.key = key
        THEN [made EXCEPT
                !.lastCall = [key |-> key, outcome |-> "fetching",
                              value |-> Undefined, withinTTL |-> within,
                              stored |-> cl.cache[key], invoked |-> FALSE]]
        ELSE LET invoked ==
                    [made EXCEPT
                        !.lastCall = [key |-> key, outcome |-> "fetching",
                                      value |-> Undefined, withinTTL |-> within,
                                      stored |-> cl.cache[key], invoked |-> TRUE],
                        !.fetchCount = [@ EXCEPT ![key] = @ + 1]]
             IN  IF fetchSends(token)
                 THEN [invoked EXCEPT
                         !.calls = @ \cup {[id |-> cl.nextCall + 1, key |-> key,
                                            refresh |-> Expired(cl, key),
                                            invalidated |-> FALSE]}]
                 ELSE Settle(invoked, key, FALSE, Undefined, Expired(cl, key))

\* getCached(key, fetcher) up to its first suspension. A valid entry is
\* returned at once (lastCall.outcome is "hit"). Otherwise the fetcher is
\* invoked: without a token fetch() throws before any request is sent, so the
\* call settles in the same turn; with one, the call waits for the runtime
\* as the member of calls whose id is nextCall.
GetCached(cl, key) ==
    LET within == /\ cl.cacheTimestamps[key] # NoTimestamp
                  /\ now - cl.cacheTimestamps[key] < CACHE_TTL
        made == [cl EXCEPT !.nextCall = @ + 1]
    IN  IF isCacheValid(cl, key)
        THEN [made EXCEPT
                !.lastCall = [key |-> key, outcome |-> "hit",
                              value |-> cl.cache[key], withinTTL |-> within,
                              stored |-> cl.cache[key], invoked |-> FALSE]]
        ELSE LET invoked ==
                    [made EXCEPT
                        !.lastCall = [key |-> key, outcome |-> "fetching",
                                      value |-> Undefined, withinTTL |-> within,
                                      stored |-> cl.cache[key], invoked |-> TRUE],
                        !.fetchCount = [@ EXCEPT ![key] = @ + 1]]
             IN  IF fetchSends(token)
                 THEN [invoked EXCEPT
                         !.calls = @ \cup {[id |-> cl.nextCall + 1, key |-> key,
                                            refresh |-> Expired(cl, key),
                                            invalidated |-> FALSE]}]
                 ELSE Settle(invoked, key, FALSE, Undefined, Expired(cl, key))

\* The runtime answers the query of a waiting call.
FetchResolve(cl, c, data) ==
    Settle([cl EXCEPT !.calls = @ \ {c}], c.key, TRUE, data, c.refresh)

\* The query of a waiting call fails (HTTP error, network error, bad JSON).
FetchReject(cl, c) ==
    Settle([cl EXCEPT !.calls = @ \ {c}], c.key, FALSE, Undefined, c.refresh)

\* Observation: the waiting calls are marked as having been in flight when
\* invalidateCache ran.
InvalidatedInFlight(waiting) == {[c EXCEPT !.invalidated = TRUE] : c \in waiting}

\* A bug invalidateCache could have: the timestamps are kept.
invalidateCacheValuesOnly(cl) ==
    [cl EXCEPT !.cache = [k \in Keys |-> Undefined],
               !.calls = InvalidatedInFlight(@)]

\* A bug invalidateCache could have: the values are kept.
invalidateCacheTimestampsOnly(cl) ==
    [cl EXCEPT !.cacheTimestamps = [k \in Keys |-> NoTimestamp],
               !.calls = InvalidatedInFlight(@)]

\* this.cache.clear(); this.cacheTimestamps.clear()
invalidateCache(cl) ==
    [cl EXCEPT !.cache = [k \in Keys |-> Undefined],
               !.cacheTimestamps = [k \in Keys |-> NoTimestamp],
               !.calls = InvalidatedInFlight(@)]

Tick(d) ==
    /\ ticks < MaxTicks
    /\ ticks' = ticks + 1
    /\ now' = now + d

\* ------------------------------------------------------------------------
\* The cache on its own: any client calling the cached API methods
\* ------------------------------------------------------------------------
InitCache ==
    /\ now = 1
    /\ token \in BOOLEAN
    /\ ticks = 0
    /\ cache = [k \in Keys |-> Undefined]
    /\ cacheTimestamps = [k \in Keys |-> NoTimestamp]
    /\ calls = {}
    /\ nextCall = 0
    /\ fetchCount = [k \in Keys |-> 0]
    /\ lastCall = NoCall
    /\ lastResult = NoResult
    /\ warmLog = "none"
    /\ files = {}
    /\ textIn = <<>>
    /\ reply = NoReply
    /\ uriIn = U_a_yaml
    /\ NoSession

CacheGet ==
    /\ nextCall < MaxCalls
    /\ \E k \in Keys : Becomes(GetCached(Client, k))
    /\ UNCHANGED <<now, token, ticks, files, textVars, sessionVars>>

CacheResolve ==
    /\ \E c \in calls, d \in RuntimeData : Becomes(FetchResolve(Client, c, d))
    /\ UNCHANGED <<now, token, ticks, files, textVars, sessionVars>>

CacheReject ==
    /\ \E c \in calls : Becomes(FetchReject(Client, c))
    /\ UNCHANGED <<now, token, ticks, files, textVars, sessionVars>>

CacheInvalidate ==
    /\ cache # [k \in Keys |-> Undefined]
    /\ Becomes(invalidateCache(Client))
    /\ UNCHANGED <<now, token, ticks, files, textVars, sessionVars>>

CacheTick ==
    /\ \E d \in CacheDeltas : Tick(d)
    /\ UNCHANGED <<token, cacheVars, files, textVars, sessionVars>>

NextCache == CacheGet \/ CacheResolve \/ CacheReject \/ CacheInvalidate \/ CacheTick

SpecCache == InitCache /\ [][NextCache]_vars

\* ------------------------------------------------------------------------
\* The analyzer and the checks of validateDocument applied to texts
\* ------------------------------------------------------------------------
Texts ==
    TextsUpTo(ReferenceLines, MaxReferenceLines)
        \cup TextsUpTo(StructureLines, MaxStructureLines)

\* validateDocument when the token is set and both getEntityMap and
\* getServiceList give their data: the four checks in their order.
validateDocumentWith(t, uri, entityIds, serviceSet, existing) ==
    EntityDiagnostics(findEntityReferences(t), entityIds)
        \o ServiceDiagnostics(findServiceReferences(t), serviceSet)
        \o IncludeDiagnostics(findIncludeReferences(t), uri, existing)
        \o SyntaxDiagnostics(t)

InitText ==
    /\ now = 1
    /\ token = TRUE
    /\ ticks = 0
    /\ cache = [k \in Keys |-> Undefined]
    /\ cacheTimestamps = [k \in Keys |-> NoTimestamp]
    /\ calls = {}
    /\ nextCall = 0
    /\ fetchCount = [k \in Keys |-> 0]
    /\ lastCall = NoCall
    /\ lastResult = NoResult
    /\ warmLog = "none"
    /\ files = {}
    /\ textIn \in Texts
    /\ reply = NoReply
    /\ uriIn = U_a_yaml
    /\ NoSession

\* The analyzer is applied once to the text, with a cursor anywhere in it.
TextAnalyze ==
    /\ reply.kind = "none"
    /\ \E l \in 0..(Len(SplitLines(textIn)) - 1) :
         \E c \in 0..Len(SplitLines(textIn)[l + 1]) :
            reply' = [kind |-> "context",
                      position |-> [line |-> l, character |-> c],
                      context |-> analyzeContext(textIn, [line |-> l, character |-> c])]
    /\ UNCHANGED <<now, token, ticks, cacheVars, files, textIn, uriIn, sessionVars>>

\* A diagnostics pass over the text, as the document file:///config/a.yaml;
\* the text is validated again after files were created.
TextValidate ==
    /\ reply.kind # "context"
    /\ \E entityIds \in Snapshots :
          reply' = [kind |-> "diagnostics",
                    entityIds |-> entityIds,
                    existing |-> files,
                    diagnostics |-> validateDocumentWith(textIn, U_a_yaml, entityIds,
                                                         ServiceCatalog, files)]
    /\ UNCHANGED <<now, token, ticks, cacheVars, files, textIn, uriIn, sessionVars>>

\* A file an include of the text names is created.
TextCreateFile ==
    /\ reply.kind # "context"
    /\ \E k \in 1..Len(findIncludeReferences(textIn)) :
          LET path == IncludePath(U_a_yaml, findIncludeReferences(textIn)[k].path)
          IN  /\ path \notin files
              /\ files' = files \cup {path}
    /\ UNCHANGED <<now, token, ticks, cacheVars, textVars, sessionVars>>

NextText == TextAnalyze \/ TextValidate \/ TextCreateFile

SpecText == InitText /\ [][NextText]_vars

\* ------------------------------------------------------------------------
\* The request handlers: completion
\* ------------------------------------------------------------------------
\* The labels of the static enumerations of the completion provider.
StaticLabels ==
    [jinjaFunctions |->
        <<"states", "is_state", "state_attr", "is_state_attr", "now", "today_at",
          "as_timestamp", "relative_time", "float", "int", "area_entities",
          "area_devices", "device_entities", "device_attr">>,
     platforms |->
        <<"state", "numeric_state", "time", "time_pattern", "sun", "zone",
          "device", "mqtt", "webhook", "event", "homeassistant", "template",
          "calendar", "geo_location", "conversation", "persistent_notification">>,
     conditions |->
        <<"state", "numeric_state", "time", "sun", "zone", "template", "device",
          "and", "or", "not", "trigger">>,
     automationKeys |->
        <<"alias", "description", "trigger", "condition", "action", "mode", "max",
          "max_exceeded", "variables", "trace">>,
     triggerKeys |->
        <<"platform", "entity_id", "to", "from", "for", "attribute", "id",
          "variables">>,
     actionKeys |->
        <<"service", "action", "target", "data", "entity_id", "delay",
          "wait_template", "wait_for_trigger", "repeat", "choose", "if",
          "parallel", "sequence", "variables", "stop", "event">>]

\* The completion items of a static enumeration: they carry no data.type.
StaticItems(labels) ==
    [k \in 1..Len(labels) |-> [type |-> "static", name |-> labels[k]]]

\* The keys (in lower case) onCompletion tells apart in a value position.
CompletionKeys ==
    [entity |-> {
        <<"e", "n", "t", "i", "t", "y", "_", "i", "d">>, 
        <<"e", "n", "t", "i", "t", "y">>, 
        <<"e", "n", "t", "i", "t", "i", "e", "s">>},
     service |-> {
         <<"s", "e", "r", "v", "i", "c", "e">>, 
         <<"a", "c", "t", "i", "o", "n">>},
     area |-> {<<"a", "r", "e", "a", "_", "i", "d">>, <<"a", "r", "e", "a">>},
     device |-> {
         <<"d", "e", "v", "i", "c", "e", "_", "i", "d">>, 
         <<"d", "e", "v", "i", "c", "e">>},
     platform |-> {<<"p", "l", "a", "t", "f", "o", "r", "m">>},
     condition |-> {<<"c", "o", "n", "d", "i", "t", "i", "o", "n">>}]

\* lineBeforeCursor.match(/states\s*\(\s*['"]?[a-z_.]*$/i)
StatesCallOpen(lineBeforeCursor) ==
    LET n == Len(lineBeforeCursor)
        Rest(c) == SpanEnd(lineBeforeCursor, c, IdStart \cup {"."}) = n
        Arg(b) == Rest(IF b < n /\ lineBeforeCursor[b + 1] \in Quote THEN b + 1 ELSE b)
        Paren(a) == /\ a < n
                    /\ lineBeforeCursor[a + 1] = "("
                    /\ Arg(SpanEnd(lineBeforeCursor, a + 1, WhiteSpace))
    IN  \E i \in 0..n :
            /\ LitAtCI(lineBeforeCursor, i, <<"s", "t", "a", "t", "e", "s">>)
            /\ Paren(SpanEnd(lineBeforeCursor, i + 6, WhiteSpace))

\* The branch of onCompletion a context takes; "none" is the empty list the
\* handler ends with.
CompletionBranch(context) ==
    LET key == toLowerCase(context.key)
    IN  IF context.inJinja
        THEN IF StatesCallOpen(context.lineBeforeCursor)
             THEN "jinja_entity" ELSE "jinja_function"
        ELSE IF context.inValue
        THEN IF key \in CompletionKeys.entity THEN "entity"
             ELSE IF key \in CompletionKeys.service THEN "service"
             ELSE IF key \in CompletionKeys.area THEN "area"
             ELSE IF key \in CompletionKeys.device THEN "device"
             ELSE IF key \in CompletionKeys.platform
                     /\ InSeq(K_trigger, context.parentKeys) THEN "platform"
             ELSE IF key \in CompletionKeys.condition THEN "condition"
             ELSE "none"
        ELSE IF context.inKey THEN "key"
        ELSE "none"

\* The cached read behind a branch that completes from live data.
BranchKey ==
    [jinja_entity |-> "states", entity |-> "states", service |-> "services",
     area |-> "areas", device |-> "devices"]

\* getKeyCompletions
getKeyCompletions(context) ==
    (IF context.parentKeys = <<>> \/ context.parentKeys[1] = 
        <<"a", "u", "t", "o", "m", "a", "t", "i", "o", "n">>
     THEN StaticItems(StaticLabels.automationKeys) ELSE <<>>)
    \o (IF context.parentKey = K_trigger \/ InSeq(K_trigger, context.parentKeys)
        THEN StaticItems(StaticLabels.triggerKeys) ELSE <<>>)
    \o (IF context.parentKey = K_action \/ InSeq(K_action, context.parentKeys)
        THEN StaticItems(StaticLabels.actionKeys) ELSE <<>>)

\* The branches that need no live data.
StaticCompletions(branch, context) ==
    CASE branch = "jinja_function" -> StaticItems(StaticLabels.jinjaFunctions)
      [] branch = "platform" -> StaticItems(StaticLabels.platforms)
      [] branch = "condition" -> StaticItems(StaticLabels.conditions)
      [] branch = "key" -> getKeyCompletions(context)
      [] OTHER -> <<>>

\* lineBeforeCursor.match(/:\s*([a-z_.]*)$/i)?.[1]?.toLowerCase() || ""
PartialOf(lineBeforeCursor) ==
    LET n == Len(lineBeforeCursor)
        Start(i) == SpanEnd(lineBeforeCursor, i + 1, WhiteSpace)
        Hit(i) == /\ lineBeforeCursor[i + 1] = ":"
                  /\ SpanEnd(lineBeforeCursor, Start(i), IdStart \cup {"."}) = n
        First(hits) ==
            IF hits = {} THEN <<>>
            ELSE toLowerCase(Slice(lineBeforeCursor,
                                   Start(CHOOSE i \in hits : \A h \in hits : i <= h), n))
    IN  First({i \in 0..(n - 1) : Hit(i)})

\* name.toLowerCase().includes(partial)
Includes(name, partial) == IndexOf(toLowerCase(name), partial) >= 0

\* A bug the filter of the service completions could have: it keeps the
\* services that do not match.
LiveItemsInverted(type, names, partial) ==
    LET Keep(name) == partial # <<>> /\ ~Includes(name, partial)
        Items(kept) ==
            [k \in 1..Len(kept) |->
                [type |-> type, label |-> kept[k],
                 first |-> LitAt(kept[k], 0, partial)]]
    IN  Items(SelectSeq(names, Keep))

\* The loop of getEntityCompletions and getServiceCompletions over the names
\* (entity_id, fullName) of the live data: a name is skipped when a partial
\* was typed that it does not contain; `first` is the leading "0" of sortText
\* (name.startsWith(partial)). A state has no friendly_name here, so that the
\* name is all the filter looks at.
LiveItems(type, names, partial) ==
    LET Keep(name) == ~(partial # <<>> /\ ~Includes(name, partial))
        Items(kept) ==
            [k \in 1..Len(kept) |->
                [type |-> type, label |-> kept[k],
                 first |-> LitAt(kept[k], 0, partial)]]
    IN  Items(SelectSeq(names, Keep))


\* The live data as the providers read it: the entity ids of the states,
\* the full names getServiceList builds, the ids of the areas and devices.
LiveData ==
    [d \in RuntimeData |->
        [states |-> IF d = "d1" THEN <<E_light_kitchen>> ELSE <<E_sensor_t>>,
         services |->
            IF d = "d1"
            THEN <<S_light_turn_on, S_light_turn_off, S_switch_toggle,
                   S_button_press, S_input_button_press>>
            ELSE <<S_light_turn_on, S_light_turn_off, S_button_press,
                   S_input_button_press>>,
         areas |-> <<<<"k", "i", "t", "c", "h", "e", "n">>>>,
         devices |-> <<<<"h", "u", "b", "1">>>>]]

\* The items a live branch makes of the data its cached read gave.
CompletionItems(branch, lineBeforeCursor, value) ==
    CASE branch = "entity" ->
            LiveItems("entity", LiveData[value].states, PartialOf(lineBeforeCursor))
      [] branch = "service" ->
            LiveItems("service", LiveData[value].services, PartialOf(lineBeforeCursor))
      [] branch = "jinja_entity" -> LiveItems("jinja_entity", LiveData[value].states, <<>>)
      [] branch = "area" -> LiveItems("area", LiveData[value].areas, <<>>)
      [] branch = "device" -> LiveItems("device", LiveData[value].devices, <<>>)

\* A handler is done: what it gave the transport. outcome is "returned" or
\* "threw" (the promise of the handler was rejected).
Returned(handler, uri, position, branch, result) ==
    [kind |-> handler, uri |-> uri, position |-> position, outcome |-> "returned",
     branch |-> branch, result |-> result]

Threw(handler, uri, position) ==
    [kind |-> handler, uri |-> uri, position |-> position, outcome |-> "threw",
     branch |-> "none", result |-> <<>>]

\* A handler waits for the runtime: for the cached read `call`, or (call 0)
\* for the query of renderTemplate, which is not cached.
Awaiting(handler, uri, position, branch, subject, call) ==
    [kind |-> "pending", handler |-> handler, uri |-> uri, position |-> position,
     branch |-> branch, subject |-> subject, call |-> call]

\* A provider after its cached read: the value it got, or the error it
\* catches (the completion providers then return the empty list, the hover
\* providers null).
ReadOf(cl, hit) ==
    IF hit THEN [ok |-> TRUE, value |-> cl.lastCall.value]
    ELSE IF cl.lastResult.outcome = "raised" THEN [ok |-> FALSE, value |-> Undefined]
    ELSE [ok |-> TRUE, value |-> cl.lastResult.value]

\* getEntityHover after getEntityMap
EntityHover(read, entityId) ==
    IF ~read.ok THEN [block |-> "none", subject |-> <<>>]
    ELSE IF InSeq(entityId, LiveData[read.value].states)
    THEN [block |-> "entity", subject |-> entityId]
    ELSE [block |-> "unknown_entity", subject |-> entityId]

\* getServiceHover after getServiceList
ServiceHover(read, serviceName) ==
    IF ~read.ok THEN [block |-> "none", subject |-> <<>>]
    ELSE IF InSeq(serviceName, LiveData[read.value].services)
    THEN [block |-> "service", subject |-> serviceName]
    ELSE [block |-> "unknown_service", subject |-> serviceName]

\* The rest of a handler once the read it made or waited for is there.
AfterRead(cl, hit, handler, uri, position, branch, subject) ==
    LET Result(read) ==
            IF handler = "completion"
            THEN IF read.ok THEN CompletionItems(branch, subject, read.value) ELSE <<>>
            ELSE IF branch = "entity" THEN EntityHover(read, subject)
            ELSE ServiceHover(read, subject)
    IN  Returned(handler, uri, position, branch, Result(ReadOf(cl, hit)))

\* A handler makes a cached read: it goes on at once on a hit and when the
\* fetcher throws without a token, and waits for the runtime otherwise.
ReadThrough(cl, key, handler, uri, position, branch, subject) ==
    LET After(c) ==
            IF c.lastCall.outcome = "hit"
            THEN [cl |-> c,
                  reply |-> AfterRead(c, TRUE, handler, uri, position, branch, subject)]
            ELSE IF fetchSends(token)
            THEN [cl |-> c,
                  reply |-> Awaiting(handler, uri, position, branch, subject, c.nextCall)]
            ELSE [cl |-> c,
                  reply |-> AfterRead(c, FALSE, handler, uri, position, branch, subject)]
    IN  After(GetCached(cl, key))

\* connection.onCompletion for the open document; analyzeContext is called
\* before the try block of the handler.
onCompletion(cl, uri, position) ==
    LET Branch(context, branch) ==
            IF branch \in DOMAIN BranchKey
            THEN ReadThrough(cl, BranchKey[branch], "completion", uri, position,
                             branch, context.lineBeforeCursor)
            ELSE [cl |-> cl,
                  reply |-> Returned("completion", uri, position, branch,
                                     StaticCompletions(branch, context))]
        With(context) ==
            IF context.threw THEN [cl |-> cl, reply |-> Threw("completion", uri, position)]
            ELSE Branch(context, CompletionBranch(context))
    IN  IF uri # uriIn
        THEN [cl |-> cl, reply |-> Returned("completion", uri, position, "none", <<>>)]
        ELSE With(analyzeContext(textIn, position))

\* ------------------------------------------------------------------------
\* The request handlers: hover
\* ------------------------------------------------------------------------
\* getWordRangeAtPosition, as offsets: start = end when there is no word.
getWordRangeAtPosition(t, position) ==
    LET Around(offset) ==
            [start |-> CHOOSE j \in 0..offset :
                          /\ \A k \in (j + 1)..offset : t[k] \in WordDot
                          /\ (j = 0 \/ t[j] \notin WordDot),
             end |-> SpanEnd(t, offset, WordDot)]
    IN  Around(offsetAt(t, position))

\* word.match(/^[a-z_]+\.[a-z0-9_]+$/i)
IsDottedName(word) == Len(word) > 0 /\ IdEnd(word, 0) = Len(word)

\* lineText.match(/(?:service|action):\s*/)
IsServiceLine(lineText) ==
    \E i \in 0..Len(lineText) :
        LitAt(lineText, i, L_service) \/ LitAt(lineText, i, L_action)

\* text.substring(0, offset).match(/\{\{[^}]*$/)
JinjaOpenBefore(t, offset) ==
    \E i \in 0..(offset - 2) :
        /\ LitAt(t, i, <<"{", "{">>)
        /\ \A k \in (i + 3)..offset : t[k] # "}"

\* text.indexOf("}}", offset)
templateEnd(t, offset) ==
    LET First(hits) == IF hits = {} THEN -1
                       ELSE CHOOSE k \in hits : \A h \in hits : k <= h
    IN  First({k \in offset..Len(t) : LitAt(t, k, <<"}", "}">>)})

\* text.substring(text.lastIndexOf("{{", offset), templateEnd + 2)
templateAt(t, offset) ==
    LET Last(hits) == IF hits = {} THEN -1
                      ELSE CHOOSE k \in hits : \A h \in hits : k >= h
        From(start) == Slice(t, IF start < 0 THEN 0 ELSE start, templateEnd(t, offset) + 2)
    IN  From(Last({k \in 0..offset : LitAt(t, k, <<"{", "{">>)}))

\* What onHover does with the word under the cursor, in the order of its
\* tests: the entity test comes first, and the service test asks for the
\* same shape of word.
HoverBranch(t, position, word) ==
    IF word = <<>> THEN "none"
    ELSE IF IsDottedName(word) THEN "entity"
    ELSE IF IsDottedName(word) /\ IsServiceLine(SplitLines(t)[position.line + 1])
    THEN "service"
    ELSE IF JinjaOpenBefore(t, offsetAt(t, position))
            /\ templateEnd(t, offsetAt(t, position)) # -1
    THEN "template"
    ELSE "none"

\* getTemplateHover once renderTemplate has settled
TemplateHover(ok, template) ==
    [block |-> IF ok THEN "template_result" ELSE "template_error", subject |-> template]

\* connection.onHover for the open document
onHover(cl, uri, position) ==
    LET None == [block |-> "none", subject |-> <<>>]
        Template(template) ==
            IF fetchSends(token)
            THEN [cl |-> cl,
                  reply |-> Awaiting("hover", uri, position, "template", template, 0)]
            ELSE [cl |-> cl,
                  reply |-> Returned("hover", uri, position, "template",
                                     TemplateHover(FALSE, template))]
        Branch(word, branch) ==
            CASE branch = "entity" ->
                    ReadThrough(cl, "states", "hover", uri, position, branch, word)
              [] branch = "service" ->
                    ReadThrough(cl, "services", "hover", uri, position, branch, word)
              [] branch = "template" ->
                    Template(templateAt(textIn, offsetAt(textIn, position)))
              [] OTHER ->
                    [cl |-> cl, reply |-> Returned("hover", uri, position, "none", None)]
        Word(r) == Branch(Slice(textIn, r.start, r.end),
                          HoverBranch(textIn, position, Slice(textIn, r.start, r.end)))
    IN  IF uri # uriIn
        THEN [cl |-> cl, reply |-> Returned("hover", uri, position, "none", None)]
        ELSE Word(getWordRangeAtPosition(textIn, position))

\* ------------------------------------------------------------------------
\* The request handlers: definition
\* ------------------------------------------------------------------------
\* lineText.match(/!secret\s+(\w+)/)
HasSecret(lineText) ==
    LET L_secret == <<"!", "s", "e", "c", "r", "e", "t">>
        Name(from, a) == a > from /\ a < Len(lineText) /\ lineText[a + 1] \in IdRest
    IN  \E i \in 0..Len(lineText) :
            /\ LitAt(lineText, i, L_secret)
            /\ Name(i + Len(L_secret), SpanEnd(lineText, i + Len(L_secret), WhiteSpace))

\* The places onDefinition looks for secrets.yaml, in its order.
possiblePaths(docDir) ==
    <<resolve(docDir, 
        <<"s", "e", "c", "r", "e", "t", "s", ".", "y", "a", "m", "l">>), resolve(docDir, 
        <<".", ".", "/", "s", "e", "c", "r", "e", "t", "s", ".", "y", "a",
          "m", "l">>),
      
          <<"/", "h", "o", "m", "e", "a", "s", "s", "i", "s", "t", "a",
            "n", "t", "/", "s", "e", "c", "r", "e", "t", "s", ".", "y",
            "a", "m", "l">>>>

\* connection.onDefinition for the open document: lineText is undefined for
\* a line index past the text, and fileURLToPath throws for a URI that is
\* not a file: URI.
onDefinition(uri, position, existing) ==
    LET lines == SplitLines(textIn)
        Location(path) == [block |-> "location", subject |-> L_file_scheme \o path]
        None == [block |-> "none", subject |-> <<>>]
        Secret(found) ==
            IF found = <<>> THEN Returned("definition", uri, position, "secret", None)
            ELSE Returned("definition", uri, position, "secret", Location(found[1]))
        InFiles(path) == path \in existing
        Rest(lineText) ==
            IF ~HasSecret(lineText)
            THEN Returned("definition", uri, position, "none", None)
            ELSE IF ~IsFileUrl(uri) THEN Threw("definition", uri, position)
            ELSE Secret(SelectSeq(possiblePaths(dirname(fileURLToPath(uri))), InFiles))
        Include(lineText, ms) ==
            IF ms = <<>> THEN Rest(lineText)
            ELSE IF ~IsFileUrl(uri) THEN Threw("definition", uri, position)
            ELSE IF IncludePath(uri, Slice(lineText, ms[1].gs, ms[1].ge)) \in existing
            THEN Returned("definition", uri, position, "include",
                          Location(IncludePath(uri, Slice(lineText, ms[1].gs, ms[1].ge))))
            ELSE Rest(lineText)
    IN  IF uri # uriIn THEN Returned("definition", uri, position, "none", None)
        ELSE IF position.line >= Len(lines) THEN Threw("definition", uri, position)
        ELSE Include(lines[position.line + 1],
                     ExecAll("include", lines[position.line + 1], 0))


\* ------------------------------------------------------------------------
\* Requests: completion, hover and definition on one open document, the
\* runtime answering or failing the reads they wait for
\* ------------------------------------------------------------------------
\* The texts of the open document.
RequestTexts ==
    [service |->
        <<"s", "e", "r", "v", "i", "c", "e", ":", " ", "b", "u", "t", "t",
          "o", "n", ".", "p", "r", "e", "s", "s">>,
     action |->
        <<"-", " ", "a", "c", "t", "i", "o", "n", ":", " ", "l", "i", "g",
          "h", "t", ".", "t", "u", "r", "n", "_", "o", "n">>,
     template |-> R_states_call,
     entity |->
        <<"e", "n", "t", "i", "t", "y", "_", "i", "d", ":", " ", "l", "1">>,
     tags |->
        <<"a", ":", " ", "!", "i", "n", "c", "l", "u", "d", "e", " ", "x",
          ".", "y", "a", "m", "l", "\n", "p", ":", " ", "!", "s", "e", "c",
          "r", "e", "t", " ", "p", "w">>,
     nested |->
        <<"t", "r", "i", "g", "g", "e", "r", ":", "\n", " ", " ", "p", "l",
          "a", "t", "f", "o", "r", "m", ":", " ", "s", "\n", " ", " ">>,
     others |->
        <<"a", "r", "e", "a", ":", " ", "z", "\n", "d", "e", "v", "i", "c", "e",
          ":", " ", "\n", "c", "o", "n", "d", "i", "t", "i", "o", "n", ":",
          " ">>]

\* The URIs a document can have: a YAML file, another file, and a document
\* that is not a file; not_open is the URI of no open document.
RequestUris ==
    [yaml |-> U_a_yaml, text |-> U_notes_txt, untitled |-> 
        <<"u", "n", "t", "i", "t", "l", "e", "d", ":", "n", "e", "w", ".",
          "y", "a", "m", "l">>,
     not_open |-> U_b_yml]

\* The files there are: the one the text includes, and the last of the
\* places secrets.yaml is looked for.
RequestFiles ==
    {<<"/", "c", "o", "n", "f", "i", "g", "/", "x", ".", "y", "a", "m", "l">>,
     <<"/", "h", "o", "m", "e", "a", "s", "s", "i", "s", "t", "a", "n", "t", "/", "s", "e", "c", "r", "e", "t", "s", ".", "y", "a", "m", "l">>}

\* The keys warmCache reads.
WarmKeys == {"states", "services", "areas", "devices"}

\* The positions a request can name: every cursor of the text, and the
\* start of the lines up to MaxPastEnd lines after its last one.
Positions(t) ==
    LET lines == SplitLines(t)
    IN  {[line |-> l, character |-> 0] : l \in 0..(Len(lines) + MaxPastEnd - 1)}
        \cup UNION {{[line |-> l - 1, character |-> c] : c \in 0..Len(lines[l])} :
                    l \in 1..Len(lines)}

\* The server once onInitialized has run and warmCache is over: without a
\* token it has read nothing; with one, the four reads of warmCache have
\* all failed or have all been answered.
InitRequest ==
    /\ now = 1
    /\ token \in BOOLEAN
    /\ ticks = 0
    /\ \E warm \in {w \in BOOLEAN : w => token} :
          /\ cache = [k \in Keys |-> IF warm /\ k \in WarmKeys THEN "d1" ELSE Undefined]
          /\ cacheTimestamps = [k \in Keys |-> IF warm /\ k \in WarmKeys THEN now
                                               ELSE NoTimestamp]
          /\ fetchCount = [k \in Keys |-> IF token /\ k \in WarmKeys THEN 1 ELSE 0]
          /\ warmLog = IF ~token THEN "disabled" ELSE IF warm THEN "warmed" ELSE "failed"
    /\ calls = {}
    /\ nextCall = 0
    /\ lastCall = NoCall
    /\ lastResult = NoResult
    /\ files = RequestFiles
    /\ textIn \in {RequestTexts[n] : n \in DOMAIN RequestTexts}
    /\ uriIn \in {RequestUris.yaml, RequestUris.text, RequestUris.untitled}
    /\ reply = NoReply
    /\ NoSession

\* What a request names: a position in the open document, or a document
\* that is not open.
Requested ==
    {[uri |-> uriIn, position |-> position] : position \in Positions(textIn)}
        \cup {[uri |-> RequestUris.not_open, position |-> [line |-> 0, character |-> 0]]}

Completion ==
    /\ reply.kind # "pending"
    /\ nextCall < MaxReads
    /\ \E q \in Requested :
          LET Do(r) == Becomes(r.cl) /\ reply' = r.reply
          IN  Do(onCompletion(Client, q.uri, q.position))
    /\ UNCHANGED <<now, token, ticks, files, textIn, uriIn, sessionVars>>

Hover ==
    /\ reply.kind # "pending"
    /\ nextCall < MaxReads
    /\ \E q \in Requested :
          LET Do(r) == Becomes(r.cl) /\ reply' = r.reply
          IN  Do(onHover(Client, q.uri, q.position))
    /\ UNCHANGED <<now, token, ticks, files, textIn, uriIn, sessionVars>>

\* onDefinition reads the line of the position only.
Definition ==
    /\ reply.kind # "pending"
    /\ nextCall < MaxReads
    /\ \E q \in Requested :
          /\ q.position.character = 0
          /\ reply' = onDefinition(q.uri, q.position, files)
    /\ UNCHANGED <<now, token, ticks, cacheVars, files, textIn, uriIn, sessionVars>>

\* The runtime answers the read a handler waits for.
RequestResolve ==
    /\ reply.kind = "pending"
    /\ \E c \in calls, d \in SessionData :
          LET Do(cl) ==
                /\ Becomes(cl)
                /\ reply' = AfterRead(cl, FALSE, reply.handler, reply.uri, reply.position,
                                      reply.branch, reply.subject)
          IN  c.id = reply.call /\ Do(FetchResolve(Client, c, d))
    /\ UNCHANGED <<now, token, ticks, files, textIn, uriIn, sessionVars>>

\* The read a handler waits for fails.
RequestReject ==
    /\ reply.kind = "pending"
    /\ \E c \in calls :
          LET Do(cl) ==
                /\ Becomes(cl)
                /\ reply' = AfterRead(cl, FALSE, reply.handler, reply.uri, reply.position,
                                      reply.branch, reply.subject)
          IN  c.id = reply.call /\ Do(FetchReject(Client, c))
    /\ UNCHANGED <<now, token, ticks, files, textIn, uriIn, sessionVars>>

\* The query of renderTemplate is answered or fails.
TemplateSettle ==
    /\ reply.kind = "pending"
    /\ reply.call = 0
    /\ \E ok \in BOOLEAN :
          reply' = Returned("hover", reply.uri, reply.position, "template",
                            TemplateHover(ok, reply.subject))
    /\ UNCHANGED <<now, token, ticks, cacheVars, files, textIn, uriIn, sessionVars>>

NextRequest ==
    Completion \/ Hover \/ Definition \/ RequestResolve \/ RequestReject
        \/ TemplateSettle

SpecRequest == InitRequest /\ [][NextRequest]_vars

\* ------------------------------------------------------------------------
\* The warm-up of the cache at the start of a session
\* ------------------------------------------------------------------------
\* A bug warmCache could have: each read awaited before the next is made.
warmCacheSequential(cl) ==
    IF ~token THEN [cl EXCEPT !.warmLog = "disabled"]
    ELSE [GetCached(cl, "states") EXCEPT !.warmLog = "pending"]

\* warmCache up to its first suspension. Without a token it logs that the
\* features are disabled and returns. With one, the four reads of the array
\* given to Promise.all are made one after the other in the same turn, each
\* up to the request its fetcher sends.
warmCache(cl) ==
    IF ~token THEN [cl EXCEPT !.warmLog = "disabled"]
    ELSE [GetCached(GetCached(GetCached(GetCached(cl, "states"), "services"),
                              "areas"), "devices")
            EXCEPT !.warmLog = "pending"]

\* The call is one of those warmCache made (it runs before any request).
IsWarmCall(c) == c.id <= Cardinality(WarmKeys)

\* Promise.all and the try/catch around it, when the call c has settled and
\* left the client r: the first read that raises is logged as the failure of
\* the warm-up, the last one fulfilled as its success; the reads that settle
\* after a failure was logged change nothing in the log.
PromiseAll(c, r) ==
    IF r.warmLog # "pending" \/ ~IsWarmCall(c) THEN r
    ELSE IF r.lastResult.outcome = "raised" THEN [r EXCEPT !.warmLog = "failed"]
    ELSE IF \E w \in r.calls : IsWarmCall(w) THEN r
    ELSE [r EXCEPT !.warmLog = "warmed"]

InitWarm ==
    /\ now = 1
    /\ token \in BOOLEAN
    /\ ticks = 0
    /\ cache = [k \in Keys |-> Undefined]
    /\ cacheTimestamps = [k \in Keys |-> NoTimestamp]
    /\ calls = {}
    /\ nextCall = 0
    /\ fetchCount = [k \in Keys |-> 0]
    /\ lastCall = NoCall
    /\ lastResult = NoResult
    /\ warmLog = "none"
    /\ files = {}
    /\ textIn = <<>>
    /\ reply = NoReply
    /\ uriIn = U_a_yaml
    /\ NoSession

\* connection.onInitialized
Initialized ==
    /\ warmLog = "none"
    /\ Becomes(warmCache(Client))
    /\ UNCHANGED <<now, token, ticks, files, textVars, sessionVars>>

\* A request made after the initialization reads one of the four keys.
WarmGet ==
    /\ warmLog # "none"
    /\ nextCall < (IF token THEN Cardinality(WarmKeys) ELSE 0) + MaxReads
    /\ \E k \in WarmKeys : Becomes(GetCached(Client, k))
    /\ UNCHANGED <<now, token, ticks, files, textVars, sessionVars>>

WarmResolve ==
    /\ \E c \in calls, d \in RuntimeData :
          Becomes(PromiseAll(c, FetchResolve(Client, c, d)))
    /\ UNCHANGED <<now, token, ticks, files, textVars, sessionVars>>

WarmReject ==
    /\ \E c \in calls : Becomes(PromiseAll(c, FetchReject(Client, c)))
    /\ UNCHANGED <<now, token, ticks, files, textVars, sessionVars>>

NextWarm == Initialized \/ WarmGet \/ WarmResolve \/ WarmReject

SpecWarm == InitWarm /\ [][NextWarm]_vars

\* ------------------------------------------------------------------------
\* The cache after the warm-up: entries expire and are refreshed
\* ------------------------------------------------------------------------
\* The client before onInitialized.
ColdClient ==
    [cache |-> [k \in Keys |-> Undefined],
     cacheTimestamps |-> [k \in Keys |-> NoTimestamp],
     calls |-> {}, nextCall |-> 0, fetchCount |-> [k \in Keys |-> 0],
     lastCall |-> NoCall, lastResult |-> NoResult, warmLog |-> "none"]

\* The runtime answers the call of the client cl that has the given id.
Answered(cl, id, data) ==
    LET Do(c) == PromiseAll(c, FetchResolve(cl, c, data))
    IN  Do(CHOOSE c \in cl.calls : c.id = id)

\* The client once the four queries of warmCache were answered, in the
\* order they were made.
WarmClient ==
    Answered(Answered(Answered(Answered(warmCache(ColdClient), 1, "d1"),
                               2, "d1"), 3, "d1"), 4, "d1")

InitRefresh ==
    /\ now = 1
    /\ token = TRUE
    /\ ticks = 0
    /\ cache = WarmClient.cache
    /\ cacheTimestamps = WarmClient.cacheTimestamps
    /\ calls = WarmClient.calls
    /\ nextCall = WarmClient.nextCall
    /\ fetchCount = WarmClient.fetchCount
    /\ lastCall = WarmClient.lastCall
    /\ lastResult = WarmClient.lastResult
    /\ warmLog = WarmClient.warmLog
    /\ files = {}
    /\ textIn = <<>>
    /\ reply = NoReply
    /\ uriIn = U_a_yaml
    /\ NoSession

\* A provider reads one of the four keys.
RefreshGet ==
    /\ nextCall < WarmClient.nextCall + MaxCalls
    /\ \E k \in WarmKeys : Becomes(GetCached(Client, k))
    /\ UNCHANGED <<now, token, ticks, files, textVars, sessionVars>>

NextRefresh == RefreshGet \/ CacheResolve \/ CacheReject \/ CacheTick

SpecRefresh == InitRefresh /\ [][NextRefresh]_vars

\* ------------------------------------------------------------------------
\* A session: documents are opened, changed and closed, the debounce timer
\* runs validateDocument, the runtime answers or fails
\* ------------------------------------------------------------------------
EndsWith(s, suffix) ==
    /\ Len(s) >= Len(suffix)
    /\ Slice(s, Len(s) - Len(suffix), Len(s)) = suffix

L_yaml == <<".", "y", "a", "m", "l">>

L_yml == <<".", "y", "m", "l">>

\* A bug the debounce could have: the pending timer is not cleared.
clearTimeoutNoop(pending, handle) == pending

clearTimeout(pending, handle) == {tm \in pending : tm.id # handle}

\* validateDocument has returned and the timer callback goes on.
Finish(cl, p, diagnostics, failed) ==
    [cl |-> cl, done |-> TRUE,
     pass |-> [p EXCEPT !.diagnostics = diagnostics, !.failed = failed]]

\* validateDocument waits for a fetch.
Suspend(cl, p) == [cl |-> cl, done |-> FALSE, pass |-> p]

\* validateDocument from the service check on, the service list in hand.
AfterServices(cl, p, serviceSet) ==
    LET c == docText[p.doc]
        found == p.diagnostics
                    \o ServiceDiagnostics(ServiceRefsOf[p.cService],
                                          serviceSet)
    IN  IF ~IsFileUrl(Uri[p.doc])
        THEN Finish(cl, p, found, p.failed)
        ELSE Finish(cl, p,
                    found \o IncludeDiagnostics(IncludeRefsOf[c], Uri[p.doc], files)
                          \o SyntaxDiagnosticsOf[c],
                    p.failed)

\* validateDocument from the entity check on, the entity map in hand.
AfterStates(cl, p, data) ==
    LET found == p.diagnostics
                    \o EntityDiagnostics(EntityRefsOf[p.cEntity], StatesOf[data])
        p1 == [p EXCEPT !.diagnostics = found, !.cService = docText[p.doc]]
        g == GetCached(cl, "services")
    IN  IF g.lastCall.outcome = "hit"
        THEN AfterServices(g, p1, ServicesOf[g.lastCall.value])
        ELSE Suspend(g, [p1 EXCEPT !.pc = "services", !.call = g.nextCall])

\* validateDocument from its first line, called by the callback of a timer.
validateDocument(cl, tm) ==
    LET p == [id |-> tm.id, doc |-> tm.doc, pc |-> "start", call |-> 0,
              diagnostics |-> <<>>, cEntity |-> docText[tm.doc],
              cService |-> "none", failed |-> FALSE]
        g == GetCached(cl, "states")
    IN  IF ~token THEN Finish(cl, p, <<>>, FALSE)
        ELSE IF g.lastCall.outcome = "hit"
        THEN AfterStates(g, p, g.lastCall.value)
        ELSE Suspend(g, [p EXCEPT !.pc = "states", !.call = g.nextCall])

\* validateDocument goes on after the fetch it waited for has settled: a
\* raised error ends it in its catch, with the diagnostics found so far.
Resume(cl, p) ==
    IF cl.lastResult.outcome = "raised" THEN Finish(cl, p, p.diagnostics, TRUE)
    ELSE IF p.pc = "states" THEN AfterStates(cl, p, cl.lastResult.value)
    ELSE AfterServices(cl, p, ServicesOf[cl.lastResult.value])

\* The timer callback after `await validateDocument(document)`: the
\* diagnostics are sent; a pass that waits is kept.
Proceed(p, r) ==
    /\ Becomes(r.cl)
    /\ IF r.done
       THEN /\ passes' = passes \ {p}
            /\ lastPub' = [lastPub EXCEPT ![r.pass.doc] =
                              [by |-> "pass", pass |-> r.pass.id,
                               diagnostics |-> r.pass.diagnostics,
                               content |-> docText[r.pass.doc],
                               version |-> docVersion[r.pass.doc],
                               failed |-> r.pass.failed,
                               newest |-> IF r.pass.id > lastPub[r.pass.doc].newest
                                          THEN r.pass.id
                                          ELSE lastPub[r.pass.doc].newest]]
       ELSE /\ passes' = (passes \ {p}) \cup {r.pass}
            /\ UNCHANGED lastPub

\* documents.onDidChangeContent
onDidChangeContent(d) ==
    IF ~EndsWith(Uri[d], L_yaml) /\ ~EndsWith(Uri[d], L_yml)
    THEN UNCHANGED <<timers, validationTimeout, lastChange, startsSince>>
    ELSE /\ timers' = clearTimeout(timers, validationTimeout)
                        \cup {[id |-> changes + 1, doc |-> d, due |-> now + DEBOUNCE_MS]}
         /\ validationTimeout' = changes + 1
         /\ IF lastChange.doc = d /\ now - lastChange.at < DEBOUNCE_MS
            THEN /\ lastChange' = [doc |-> d, at |-> now, burst |-> lastChange.burst + 1]
                 /\ UNCHANGED startsSince
            ELSE /\ lastChange' = [doc |-> d, at |-> now, burst |-> 1]
                 /\ startsSince' = 0

InitSession ==
    /\ now = 1
    /\ token \in BOOLEAN
    /\ ticks = 0
    /\ cache = [k \in Keys |-> Undefined]
    /\ cacheTimestamps = [k \in Keys |-> NoTimestamp]
    /\ calls = {}
    /\ nextCall = 0
    /\ fetchCount = [k \in Keys |-> 0]
    /\ lastCall = NoCall
    /\ lastResult = NoResult
    /\ warmLog = "none"
    /\ files = {}
    /\ textIn = <<>>
    /\ reply = NoReply
    /\ uriIn = U_a_yaml
    /\ NoSession

\* textDocument/didOpen: the document enters the store with its content.
DidOpen ==
    /\ changes < MaxChanges
    /\ \E d \in Docs, c \in Contents :
          /\ docState[d] = "new"
          /\ docState' = [docState EXCEPT ![d] = "open"]
          /\ docText' = [docText EXCEPT ![d] = c]
          /\ docVersion' = [docVersion EXCEPT ![d] = 1]
          /\ onDidChangeContent(d)
    /\ changes' = changes + 1
    /\ UNCHANGED <<now, token, ticks, cacheVars, files, textVars, passes,
                   lastPub, lastStart>>

\* textDocument/didChange: the TextDocument object is updated in place.
DidChange ==
    /\ changes < MaxChanges
    /\ \E d \in Docs, c \in Contents :
          /\ docState[d] = "open"
          /\ docText' = [docText EXCEPT ![d] = c]
          /\ docVersion' = [docVersion EXCEPT ![d] = @ + 1]
          /\ onDidChangeContent(d)
    /\ changes' = changes + 1
    /\ UNCHANGED <<now, token, ticks, cacheVars, files, textVars, docState,
                   passes, lastPub, lastStart>>

\* textDocument/didClose and documents.onDidClose
DidClose ==
    /\ \E d \in Docs :
          /\ docState[d] = "open"
          /\ docState' = [docState EXCEPT ![d] = "closed"]
          /\ lastPub' = [lastPub EXCEPT ![d] =
                            [by |-> "close", pass |-> 0, diagnostics |-> <<>>,
                             content |-> docText[d], version |-> docVersion[d],
                             failed |-> FALSE, newest |-> lastPub[d].newest]]
    /\ UNCHANGED <<now, token, ticks, cacheVars, files, textVars, docText,
                   docVersion, timers, validationTimeout, passes, changes,
                   lastChange, lastStart, startsSince>>

\* The callback of a timer runs, its delay over.
TimerFire ==
    /\ \E tm \in timers :
          /\ now >= tm.due
          /\ timers' = timers \ {tm}
          /\ lastStart' = [id |-> tm.id, doc |-> tm.doc, at |-> now]
          /\ LET r == validateDocument(Client, tm) IN Proceed(r.pass, r)
    /\ startsSince' = startsSince + 1
    /\ UNCHANGED <<now, token, ticks, files, textVars, docState, docText,
                   docVersion, validationTimeout, changes, lastChange>>

\* The runtime answers the fetch a pass waits for.
PassResolve ==
    /\ \E p \in passes, c \in calls, d \in SessionData :
          /\ c.id = p.call
          /\ Proceed(p, Resume(FetchResolve(Client, c, d), p))
    /\ UNCHANGED <<now, token, ticks, files, textVars, docState, docText,
                   docVersion, timers, validationTimeout, changes, lastChange,
                   lastStart, startsSince>>

\* The fetch a pass waits for fails.
PassReject ==
    /\ \E p \in passes, c \in calls :
          /\ c.id = p.call
          /\ Proceed(p, Resume(FetchReject(Client, c), p))
    /\ UNCHANGED <<now, token, ticks, files, textVars, docState, docText,
                   docVersion, timers, validationTimeout, changes, lastChange,
                   lastStart, startsSince>>

SessionTick ==
    /\ \E d \in SessionDeltas : Tick(d)
    /\ UNCHANGED <<token, cacheVars, files, textVars, sessionVars>>

NextSession ==
    DidOpen \/ DidChange \/ DidClose \/ TimerFire \/ PassResolve \/ PassReject
        \/ SessionTick

SpecSession == InitSession /\ [][NextSession]_vars

\* ------------------------------------------------------------------------
\* Claims about the cache (checked under SpecCache)
\* ------------------------------------------------------------------------

\* C1: a getCached made less than CACHE_TTL after the timestamp stored for
\* its key returns exactly the stored value and does not invoke the fetcher.
C1_HitWithinTTL ==
    lastCall.withinTTL =>
        /\ lastCall.outcome = "hit"
        /\ lastCall.value = lastCall.stored
        /\ ~lastCall.invoked

\* A fetched value is served again one millisecond before it expires.
C1_Witness ==
    /\ lastCall.withinTTL
    /\ lastCall.outcome = "hit"
    /\ lastCall.value \in RuntimeData
    /\ now - cacheTimestamps[lastCall.key] = CACHE_TTL - 1

\* C2: for every key, when the entry has expired, a prior value is cached and
\* the runtime query behind the key fails on refresh, the read returns the
\* prior value and does not raise.
C2_StaleOnRefreshFailure ==
    (lastResult.queryFailed /\ lastResult.refresh /\ lastResult.hadPrior) =>
        /\ lastResult.outcome # "raised"
        /\ lastResult.value = lastResult.prior

\* The part of C2 the code keeps: the keys whose fetcher lets the failure out.
C2_StaleOnRefreshFailurePlainKeys ==
    (/\ lastResult.queryFailed /\ lastResult.refresh /\ lastResult.hadPrior
     /\ lastResult.key \notin SwallowingKeys) =>
        /\ lastResult.outcome = "stale"
        /\ lastResult.value = lastResult.prior

\* C3: when the fetcher fails and no value is cached for the key, the error
\* propagates and neither a value nor a timestamp is recorded for the key.
C3_MissFailurePropagates ==
    (lastResult.fetcherFailed /\ ~lastResult.hadPrior) =>
        /\ lastResult.outcome = "raised"
        /\ lastResult.valueAfter = Undefined
        /\ lastResult.timestampAfter = NoTimestamp

\* A waiting call on an empty key whose query failed.
C3_Witness ==
    /\ token
    /\ lastResult.fetcherFailed
    /\ ~lastResult.hadPrior
    /\ lastResult.outcome = "raised"

\* ------------------------------------------------------------------------
\* Claims about the debounce and the diagnostics pass (checked under
\* SpecSession)
\* ------------------------------------------------------------------------

\* C4: after one or more content changes to one YAML document, each less
\* than DEBOUNCE_MS after the one before it, and no further change, the timer
\* of the last change is the only one pending and no pass has started since
\* the first of them, or exactly one pass has started: for that document, no
\* earlier than DEBOUNCE_MS after the last change, and what it has read and
\* what it published is the final content.
C4_OnePassAfterQuiescence ==
    lastChange.doc # "none" =>
        \/ /\ startsSince = 0
           /\ timers = {[id |-> validationTimeout, doc |-> lastChange.doc,
                         due |-> lastChange.at + DEBOUNCE_MS]}
        \/ /\ startsSince = 1
           /\ timers = {}
           /\ lastStart.doc = lastChange.doc
           /\ lastStart.at >= lastChange.at + DEBOUNCE_MS
           /\ \A p \in passes :
                 p.id = lastStart.id =>
                    /\ p.cEntity = docText[p.doc]
                    /\ p.cService \in {"none", docText[p.doc]}
           /\ lastPub[lastChange.doc].pass = lastStart.id =>
                 /\ lastPub[lastChange.doc].version = docVersion[lastChange.doc]
                 /\ lastPub[lastChange.doc].content = docText[lastChange.doc]

\* Two changes 499 ms apart, and the one pass, started exactly DEBOUNCE_MS
\* after the second, has published what it found in the final content.
C4_Witness ==
    /\ token
    /\ lastChange.burst = 2
    /\ startsSince = 1
    /\ lastStart.at = lastChange.at + DEBOUNCE_MS
    /\ lastPub[lastChange.doc].by = "pass"
    /\ lastPub[lastChange.doc].pass = lastStart.id
    /\ lastPub[lastChange.doc].version = 2
    /\ lastPub[lastChange.doc].diagnostics # <<>>

\* C5: the diagnostics published for a document come from the most recent
\* pass: a pass never publishes for a document after a pass that started
\* later than it has published for that document.
C5_LatestPassPublishes ==
    \A d \in Docs :
        lastPub[d].by = "pass" => lastPub[d].pass = lastPub[d].newest

\* C6: without a token a pass still validates the syntax: what it publishes
\* has the yaml-syntax error of a content that does not parse, and no
\* unknown-entity or unknown-service finding.
C6_SyntaxOnlyWithoutToken ==
    \A d \in Docs :
        (~token /\ lastPub[d].by = "pass") =>
            /\ WithCode(lastPub[d].diagnostics, "yaml-syntax")
                  = SyntaxDiagnosticsOf[lastPub[d].content]
            /\ WithCode(lastPub[d].diagnostics, "unknown-entity") = <<>>
            /\ WithCode(lastPub[d].diagnostics, "unknown-service") = <<>>

\* The part of C6 the code keeps: without a token no finding depends on live
\* data.
C6_NoLiveFindingsWithoutToken ==
    \A d \in Docs :
        (~token /\ lastPub[d].by = "pass") =>
            /\ WithCode(lastPub[d].diagnostics, "unknown-entity") = <<>>
            /\ WithCode(lastPub[d].diagnostics, "unknown-service") = <<>>

\* C7: when a fetch of a pass raises, no value being cached, what the pass
\* returns still has the include-not-found errors and the yaml-syntax error
\* of the content.
C7_PartialOnFetchFailure ==
    \A d \in Docs :
        (lastPub[d].by = "pass" /\ lastPub[d].failed) =>
            /\ WithCode(lastPub[d].diagnostics, "include-not-found")
                  = IncludeDiagnostics(IncludeRefsOf[lastPub[d].content], Uri[d], files)
            /\ WithCode(lastPub[d].diagnostics, "yaml-syntax")
                  = SyntaxDiagnosticsOf[lastPub[d].content]

\* What the code does when a fetch raises: the pass returns what the checks
\* before the fetch found, and nothing of the checks after it.
C7_FindingsBeforeFailure ==
    \A d \in Docs :
        (lastPub[d].by = "pass" /\ lastPub[d].failed) =>
            /\ WithCode(lastPub[d].diagnostics, "include-not-found") = <<>>
            /\ WithCode(lastPub[d].diagnostics, "yaml-syntax") = <<>>

\* ------------------------------------------------------------------------
\* Claims about the analyzer and the checks (checked under SpecText)
\* ------------------------------------------------------------------------

\* The entity ids the four patterns capture in a text, each with the offset
\* at which its capture group stands, in the order of findEntityReferences.
EntityGroups(t) ==
    LET single == ExecAll("entityId", t, 0)
        lists == ExecAll("list", t, 0)
        states == ExecAll("states", t, 0)
        isState == ExecAll("isState", t, 0)
        Items(m) ==
            LET content == Slice(t, m.index, m.end)
                items == ExecAll("item", content, 0)
            IN  [k \in 1..Len(items) |->
                    [id |-> Slice(content, items[k].gs, items[k].ge),
                     at |-> m.index + items[k].gs]]
        Of(ms) == [k \in 1..Len(ms) |->
                      [id |-> Slice(t, ms[k].gs, ms[k].ge), at |-> ms[k].gs]]
    IN  Of(single) \o Flatten([k \in 1..Len(lists) |-> Items(lists[k])])
            \o Of(states) \o Of(isState)

C9_IncludeNotFound ==
    reply.kind = "diagnostics" =>
        LET includes == ExecAll("include", textIn, 0)
            Missing(m) ==
                IncludePath(U_a_yaml, Slice(textIn, m.gs, m.ge)) \notin reply.existing
            missing == SelectSeq(includes, Missing)
            errors == WithCode(reply.diagnostics, "include-not-found")
        IN  /\ Len(errors) = Len(missing)
            /\ \A k \in 1..Len(missing) :
                  /\ errors[k].severity = "error"
                  /\ errors[k].range = Range(textIn, missing[k].gs, missing[k].ge)

\* The part of C9 that does not depend on the range: one error per include
\* whose file is missing, none once the file exists.
C9_IncludeNotFoundCount ==
    reply.kind = "diagnostics" =>
        LET includes == ExecAll("include", textIn, 0)
            Missing(m) ==
                IncludePath(U_a_yaml, Slice(textIn, m.gs, m.ge)) \notin reply.existing
        IN  Len(WithCode(reply.diagnostics, "include-not-found"))
                = Len(SelectSeq(includes, Missing))

\* The chain of C10: walking upward from line n, a key line registers when
\* it is strictly shallower than the line registered before it (at first:
\* than the cursor's line).
RECURSIVE EnclosingChain(_, _, _)
EnclosingChain(lines, n, indent) ==
    IF n = 0 THEN <<>>
    ELSE IF KeyOf(lines[n]) # <<>> /\ Indent(lines[n]) < indent
         THEN EnclosingChain(lines, n - 1, Indent(lines[n])) \o <<KeyOf(lines[n])>>
         ELSE EnclosingChain(lines, n - 1, indent)

\* C10: parentKeys is the chain of keys found walking upward in which each
\* registered key line is strictly shallower than the one registered before
\* it, outermost first, so that sibling keys of an ancestor never appear.
C10_EnclosingKeyChain ==
    reply.kind = "context" =>
        reply.context.parentKeys
            = EnclosingChain(SplitLines(textIn), reply.position.line,
                             Indent(reply.context.lineBeforeCursor))

\* What analyzeContext gives for the three-line example of C10.
C10_ExampleInCode ==
    (/\ reply.kind = "context"
     /\ textIn = Y_automation \o <<"\n">> \o Y_trigger \o <<"\n">> \o Y_platform
     /\ reply.position = [line |-> 2, character |-> Len(Y_platform)]) =>
        /\ reply.context.parentKeys = <<SubSeq(Y_automation, 1, 10), K_trigger>>
        /\ reply.context.triggerType = <<"t", "i", "m", "e">>

\* The cursor stands in a template expression of its line: a "{{" ends at or
\* before it and no "}}" lies between that "{{" and the cursor.
InTemplate(line, character) ==
    \E b \in 0..(character - 2) :
        /\ LitAt(line, b, <<"{", "{">>)
        /\ \A e \in (b + 2)..(character - 2) : ~LitAt(line, e, <<"}", "}">>)

RequestLine == SplitLines(textIn)[reply.position.line + 1]

TypedValue ==
    Trim(Slice(RequestLine, IndexOf(RequestLine, <<":">>) + 1, reply.position.character))

DomainOf(name) == Slice(name, 0, IndexOf(name, <<".">>))

\* The reply is a service completion for a typed partial of the shape
\* domain.x, made from the catalog the cache holds.
ServiceCompletionFor(domainLen) ==
    /\ reply.kind = "completion"
    /\ reply.outcome = "returned"
    /\ reply.branch = "service"
    /\ reply.position.line < Len(SplitLines(textIn))
    /\ cache["services"] # Undefined
    /\ IndexOf(TypedValue, <<".">>) = domainLen
    /\ Len(TypedValue) > domainLen + 1

\* C12: a service completion for a typed partial domain.x returns every
\* service of the catalog whose full name starts with the partial, and no
\* service of another domain than the one typed.
C12_ServiceCompletion ==
    \A n \in 1..8 :
        ServiceCompletionFor(n) =>
            /\ \A k \in 1..Len(LiveData[cache["services"]].services) :
                  LitAt(LiveData[cache["services"]].services[k], 0, TypedValue)
                    => \E j \in 1..Len(reply.result) :
                          reply.result[j].label = LiveData[cache["services"]].services[k]
            /\ \A j \in 1..Len(reply.result) :
                  DomainOf(reply.result[j].label) = DomainOf(TypedValue)

\* C12, the part that holds: every service whose full name starts with the
\* typed partial is returned, in the first rank.
C12_MatchingServicesReturned ==
    \A n \in 1..8 :
        ServiceCompletionFor(n) =>
            \A k \in 1..Len(LiveData[cache["services"]].services) :
                LitAt(LiveData[cache["services"]].services[k], 0, TypedValue)
                  => \E j \in 1..Len(reply.result) :
                        /\ reply.result[j].label = LiveData[cache["services"]].services[k]
                        /\ reply.result[j].first

\* The word under the cursor of a hover, and the offset of the cursor.
HoverOffset == offsetAt(textIn, reply.position)

HoverWord ==
    Slice(textIn, getWordRangeAtPosition(textIn, reply.position).start,
          getWordRangeAtPosition(textIn, reply.position).end)

HoverReturned ==
    /\ reply.kind = "hover"
    /\ reply.outcome = "returned"
    /\ reply.uri = uriIn
    /\ reply.position.line < Len(SplitLines(textIn))

\* C13: a hover on a token of the shape domain.name on a line with a
\* service: or action: key is answered from the service catalog, not from
\* the entity snapshot.
C13_ServiceHover ==
    (HoverReturned /\ IsDottedName(HoverWord) /\ IsServiceLine(RequestLine))
        => /\ reply.branch = "service"
           /\ reply.result.block \in {"service", "unknown_service", "none"}

\* The cursor of a hover stands in a template expression: a "{{" ends at or
\* before it, a "}}" starts at or after it, and no "}}" lies between them.
InClosedTemplate(t, offset, b, e) ==
    /\ LitAt(t, b, <<"{", "{">>)
    /\ LitAt(t, e, <<"}", "}">>)
    /\ b + 2 <= offset
    /\ offset <= e
    /\ \A k \in (b + 2)..(e - 1) : ~LitAt(t, k, <<"}", "}">>)
    /\ \A k \in (b + 1)..(e - 2) : ~LitAt(t, k, <<"{", "{">>)

\* C14: a hover anywhere inside a template expression submits the enclosing
\* {{ ... }} span for evaluation and returns the rendered result or the
\* evaluation error.
C14_TemplateHover ==
    \A b \in 0..Len(textIn), e \in 0..Len(textIn) :
        (HoverReturned /\ InClosedTemplate(textIn, HoverOffset, b, e))
            => /\ reply.result.block \in {"template_result", "template_error"}
               /\ reply.result.subject = Slice(textIn, b, e + 2)

\* C14, the part that holds: on a word of a template expression that is not
\* of the shape domain.name, the enclosing span is what is evaluated.
C14_TemplateHoverOnIdentifier ==
    \A b \in 0..Len(textIn), e \in 0..Len(textIn) :
        (/\ HoverReturned
         /\ InClosedTemplate(textIn, HoverOffset, b, e)
         /\ HoverWord # <<>>
         /\ ~IsDottedName(HoverWord))
            => /\ reply.result.block \in {"template_result", "template_error"}
               /\ reply.result.subject = Slice(textIn, b, e + 2)

\* C15: no request handler ends with an exception, whatever the URI of the
\* open document, the position (a line past the end of the text included)
\* and the outcome of the reads.
C15_NoHandlerThrows ==
    reply.kind \in {"completion", "hover", "definition"} => reply.outcome # "threw"

\* C15, the part that holds: the hover handler never ends with an exception.
C15_HoverNeverThrows ==
    reply.kind = "hover" => reply.outcome # "threw"

\* C16: on a document whose URI ends in neither .yaml nor .yml, completion
\* returns the empty list and hover and definition return nothing.
C16_OtherFilesIgnored ==
    (/\ reply.kind \in {"completion", "hover", "definition"}
     /\ reply.uri = uriIn
     /\ ~EndsWith(uriIn, L_yaml)
     /\ ~EndsWith(uriIn, L_yml))
        => /\ reply.outcome = "returned"
           /\ reply.kind = "completion" => Len(reply.result) = 0
           /\ reply.kind # "completion" => reply.result.block = "none"

\* C16, the part that holds: no diagnostics pass is scheduled or run for a
\* document whose URI ends in neither .yaml nor .yml.
C16_NoPassForOtherFiles ==
    /\ \A tm \in timers : tm.doc # "n"
    /\ \A p \in passes : p.doc # "n"
    /\ lastStart.doc # "n"
    /\ lastPub["n"].by \in {"none", "close"}

\* C17: without a token no request is in flight to the runtime, no handler
\* waits for one, and every completion item comes from a static enumeration.
C17_StaticOnlyWithoutToken ==
    ~token =>
        /\ calls = {}
        /\ reply.kind # "pending"
        /\ cache = [k \in Keys |-> Undefined]
        /\ reply.kind = "completion" =>
              \A k \in 1..Len(reply.result) : reply.result[k].type = "static"

\* Without a token an entity completion was asked for: the read behind it
\* raised, and the list is empty.
C17_Witness ==
    /\ ~token
    /\ reply.kind = "completion"
    /\ reply.branch = "entity"
    /\ reply.outcome = "returned"
    /\ Len(reply.result) = 0
    /\ lastResult.outcome = "raised"
    /\ lastResult.key = "states"

\* ------------------------------------------------------------------------
\* Claims about sessions with several documents
\* ------------------------------------------------------------------------
YamlDocs == {d \in Docs : EndsWith(Uri[d], L_yaml) \/ EndsWith(Uri[d], L_yml)}

\* The latest content of an open document is validated or will be: a timer
\* is pending for the document, a pass over it is running, or diagnostics
\* were published for it since its last change.
Scheduled(d) ==
    \/ \E tm \in timers : tm.doc = d
    \/ \E p \in passes : p.doc = d
    \/ lastPub[d].by = "pass" /\ lastPub[d].version = docVersion[d]

\* C18: with several open YAML documents, a change of one document does
\* not cancel the pending pass of another: every open YAML document that
\* was changed keeps a pending timer or a running pass until diagnostics
\* for its latest content are published.
C18_ChangedDocumentStaysScheduled ==
    \A d \in YamlDocs : docState[d] = "open" => Scheduled(d)

\* C18, the part that holds: as long as one YAML document only is open, it
\* stays scheduled until its latest content is validated.
C18_SingleDocumentStaysScheduled ==
    (\E d \in YamlDocs : docState[d] = "new")
        => \A d \in YamlDocs : docState[d] = "open" => Scheduled(d)

\* What a pass publishes for document d when all it reads of the document
\* is the content c: nothing (no token, or the entity map could not be
\* read), the entity findings (the service list could not be read), or the
\* findings of the four checks.
SnapshotResults(c, d) ==
    {<<>>,
     EntityDiagnostics(EntityRefsOf[c], StatesOf["d1"]),
     EntityDiagnostics(EntityRefsOf[c], StatesOf["d1"])
        \o ServiceDiagnostics(ServiceRefsOf[c], ServicesOf["d1"])
        \o IncludeDiagnostics(IncludeRefsOf[c], Uri[d], files)
        \o SyntaxDiagnosticsOf[c]}

\* C19: the diagnostics a pass publishes are those of one content of the
\* document: entity, service and include findings and the syntax check all
\* come from the same snapshot, also when the document changes while the
\* pass waits for live data.
C19_SingleSnapshot ==
    \A d \in Docs :
        lastPub[d].by = "pass" =>
            \E c \in Contents : lastPub[d].diagnostics \in SnapshotResults(c, d)

\* C19, the part that holds: a pass over a document that has had one
\* content only publishes the findings of that content.
C19_SingleSnapshotWithoutChange ==
    \A d \in Docs :
        (lastPub[d].by = "pass" /\ lastPub[d].version = 1) =>
            lastPub[d].diagnostics \in SnapshotResults(lastPub[d].content, d)

\* ------------------------------------------------------------------------
\* Claims about the cache under interleaving
\* ------------------------------------------------------------------------
\* The results a fetcher can give.
FetcherResults == RuntimeData \cup {EmptyList}

\* C20: whatever the interleaving of getCached calls, their fetches and
\* invalidateCache, a key has a timestamp exactly when it has a value, the
\* key of the last completed fetch that still has the timestamp of that
\* fetch has its value, and every value a read returns is the whole result
\* of one fetcher.
C20_NoTornEntry ==
    /\ \A k \in Keys : (cacheTimestamps[k] # NoTimestamp) <=> (cache[k] # Undefined)
    /\ \A k \in Keys : cache[k] # Undefined => cache[k] \in FetcherResults
    /\ (lastResult.outcome = "fetched"
            /\ cacheTimestamps[lastResult.key] = lastResult.timestampAfter)
          => cache[lastResult.key] = lastResult.valueAfter
    /\ lastCall.outcome = "hit" => lastCall.value \in FetcherResults
    /\ lastResult.outcome \in {"fetched", "stale"} => lastResult.value \in FetcherResults

\* Two calls for one key were in flight together; the fetch of one was
\* stored, the cache was invalidated, and the other is still in flight.
C20_Witness ==
    /\ lastResult.outcome = "fetched"
    /\ \E c \in calls : c.key = lastResult.key
    /\ cache[lastResult.key] = Undefined
    /\ cacheTimestamps[lastResult.key] = NoTimestamp

\* ------------------------------------------------------------------------
\* Claims about invalidation and the independence of the keys
\* ------------------------------------------------------------------------
\* Both maps after clear().
NoValues == [k \in Keys |-> Undefined]

NoTimestamps == [k \in Keys |-> NoTimestamp]

\* The step takes the value or the timestamp of the key away.
Removes(k) ==
    \/ cache[k] # Undefined /\ cache'[k] = Undefined
    \/ cacheTimestamps[k] # NoTimestamp /\ cacheTimestamps'[k] = NoTimestamp

\* The step is a getCached up to its first suspension.
Reads == nextCall' = nextCall + 1

\* The waiting calls whose fetcher settles in the step.
SettledCalls == {c \in calls : \A w \in calls' : w.id # c.id}

\* The keys of the getCached calls whose fetcher settles in the step: a
\* waiting call that is answered, or, without a token, the call just made.
SettledKeys ==
    {c.key : c \in SettledCalls}
        \cup {k \in Keys : /\ ~fetchSends(token)
                           /\ Reads
                           /\ lastCall'.invoked
                           /\ lastCall'.key = k}

\* C21: a step that removes a value or a timestamp removes the values and
\* the timestamps of all keys (only invalidateCache removes, and it removes
\* everything at once); in the state it leaves no key is valid, a getCached
\* of any key invokes the key's fetcher, and the failure of that fetcher is
\* raised to the caller.
C21_InvalidateRemovesAll ==
    [][/\ (\E k \in Keys : Removes(k)) =>
            /\ cache' = NoValues
            /\ cacheTimestamps' = NoTimestamps
       /\ (cache = NoValues /\ cacheTimestamps = NoTimestamps) =>
            /\ \A k \in Keys : ~isCacheValid(Client, k)
            /\ Reads =>
                 /\ lastCall'.invoked
                 /\ fetchCount'[lastCall'.key] = fetchCount[lastCall'.key] + 1
            /\ \A k \in SettledKeys :
                 lastResult'.fetcherFailed => lastResult'.outcome = "raised"
      ]_vars

\* A value was stored for a key and is gone with its timestamp, and the
\* getCached of that key made since waits for its fetcher.
C21_Witness ==
    /\ lastResult.outcome = "fetched"
    /\ cache = NoValues
    /\ cacheTimestamps = NoTimestamps
    /\ lastCall.key = lastResult.key
    /\ lastCall.invoked
    /\ lastCall.stored = Undefined
    /\ \E c \in calls : c.key = lastResult.key /\ c.id = nextCall /\ ~c.invalidated

\* C22: getFloors and getLabels never raise: when their runtime query fails,
\* also for want of a token, they return the empty list.
C22_FloorsLabelsNeverRaise ==
    lastResult.key \in SwallowingKeys =>
        /\ lastResult.outcome # "raised"
        /\ lastResult.queryFailed => lastResult.value = EmptyList

\* getLabels without a token: fetch() throws inside the fetcher's try.
C22_Witness ==
    /\ ~token
    /\ lastResult.key = "labels"
    /\ lastResult.queryFailed
    /\ ~lastResult.hadPrior
    /\ lastResult.value = EmptyList

\* ------------------------------------------------------------------------
\* Claims about the warm-up (checked under SpecWarm)
\* ------------------------------------------------------------------------
\* C23: with a token, the initialization leaves the queries of all four
\* keys the providers read in flight together; a warm-up read that raises
\* changes only the log and leaves the other queries in flight; a warm-up
\* query that is answered stores its entry whatever the others did and
\* whatever was logged; and a read made by a later request raises only when
\* its own query fails.
C23_WarmUp ==
    [][/\ (warmLog = "none" /\ token) =>
            /\ warmLog' = "pending"
            /\ Cardinality(calls') = Cardinality(WarmKeys)
            /\ {c.key : c \in calls'} = WarmKeys
       /\ \A c \in SettledCalls :
            /\ (IsWarmCall(c) /\ lastResult'.outcome = "raised") =>
                  /\ cache' = cache
                  /\ cacheTimestamps' = cacheTimestamps
                  /\ calls' = calls \ {c}
                  /\ warmLog' \in {"failed", warmLog}
            /\ (IsWarmCall(c) /\ ~lastResult'.queryFailed) =>
                  /\ cache'[c.key] = lastResult'.value
                  /\ cache'[c.key] \in RuntimeData
                  /\ cacheTimestamps'[c.key] = now
            /\ (~IsWarmCall(c) /\ lastResult'.outcome = "raised") =>
                  lastResult'.queryFailed
       /\ (Reads /\ warmLog # "none" /\ isCacheValid(Client, lastCall'.key)) =>
            lastCall'.outcome = "hit"
      ]_vars

\* The warm-up was logged as failed, the query of one key failed and left no
\* entry, and a later request was served the entry another warm-up query
\* stored.
C23_Witness ==
    /\ warmLog = "failed"
    /\ calls = {}
    /\ nextCall > Cardinality(WarmKeys)
    /\ lastCall.outcome = "hit"
    /\ lastCall.value \in RuntimeData
    /\ \E k \in WarmKeys : cache[k] = Undefined /\ fetchCount[k] = 1

\* ------------------------------------------------------------------------
\* Claims about the filter of the live completions (checked under SpecRequest)
\* ------------------------------------------------------------------------
LiveTypes == {"entity", "service", "area", "device"}

\* The reply is a completion made for a cursor that has a partial value
\* between the colon of its line and itself.
CompletionAfterPartial ==
    /\ reply.kind = "completion"
    /\ reply.outcome = "returned"
    /\ reply.branch \in LiveTypes
    /\ reply.position.line < Len(SplitLines(textIn))
    /\ TypedValue # <<>>

\* C24: when a partial value has been typed after `key: `, every entity,
\* service, area or device a completion returns contains the partial, case
\* set aside, in its identifier, whatever characters the partial is made of.
C24_LiveCandidatesContainPartial ==
    CompletionAfterPartial =>
        \A j \in 1..Len(reply.result) :
            reply.result[j].type \in LiveTypes
                => Includes(reply.result[j].label, toLowerCase(TypedValue))

\* C24, the part that holds: the entities and services returned for a partial
\* made of letters, underscores and dots contain it.
C24_LetterPartialsFilter ==
    (/\ CompletionAfterPartial
     /\ reply.branch \in {"entity", "service"}
     /\ \A k \in 1..Len(TypedValue) : TypedValue[k] \in IdStart \cup {"."}) =>
        \A j \in 1..Len(reply.result) :
            Includes(reply.result[j].label, toLowerCase(TypedValue))

\* ------------------------------------------------------------------------
\* Claims about the hints of analyzeContext (checked under SpecText)
\* ------------------------------------------------------------------------
\* The value found on the nearest line at or after line n (counted from 1),
\* or << >>.
RECURSIVE ValueAtOrAfter(_, _, _, _)
ValueAtOrAfter(lines, n, lit, cls) ==
    IF n > Len(lines) THEN <<>>
    ELSE IF FirstValue(lines[n], lit, cls) # <<>> THEN FirstValue(lines[n], lit, cls)
         ELSE ValueAtOrAfter(lines, n + 1, lit, cls)

\* The part of a service name before its first dot.
ServiceDomain(service) ==
    IF IndexOf(service, <<".">>) < 0 THEN service
    ELSE Slice(service, 0, IndexOf(service, <<".">>))

InTriggerChain(chain) == InSeq(K_trigger, chain) \/ InSeq(K_triggers, chain)

InActionChain(chain) == InSeq(K_action, chain) \/ InSeq(K_actions, chain)

\* C25: when the chain of enclosing keys has trigger or triggers, triggerType
\* is the word of the nearest `platform: <word>` at or after the cursor's
\* line; when it has action or actions, domain is the domain of the nearest
\* `service: <domain.name>` at or after the cursor's line; when it has none
\* of these keys, both are null.
C25_ForwardHints ==
    (reply.kind = "context" /\ ~reply.context.threw) =>
        /\ reply.context.triggerType
             = IF InTriggerChain(reply.context.parentKeys)
               THEN ValueAtOrAfter(SplitLines(textIn), reply.position.line + 1,
                                   L_platform, IdRest)
               ELSE <<>>
        /\ reply.context.domain
             = IF InActionChain(reply.context.parentKeys)
               THEN ServiceDomain(ValueAtOrAfter(SplitLines(textIn),
                                                 reply.position.line + 1,
                                                 L_service, WordDot))
               ELSE <<>>

\* C25, the part that holds: outside a trigger block there is no trigger
\* type and outside an action block no domain, and a value on the cursor's
\* own line is the one recorded.
C25_HintsOfOwnLineAndNone ==
    (reply.kind = "context" /\ ~reply.context.threw) =>
        /\ ~InTriggerChain(reply.context.parentKeys) => reply.context.triggerType = <<>>
        /\ ~InActionChain(reply.context.parentKeys) => reply.context.domain = <<>>
        /\ (/\ InTriggerChain(reply.context.parentKeys)
            /\ FirstValue(SplitLines(textIn)[reply.position.line + 1],
                          L_platform, IdRest) # <<>>) =>
                reply.context.triggerType
                    = FirstValue(SplitLines(textIn)[reply.position.line + 1],
                                 L_platform, IdRest)

\* ------------------------------------------------------------------------
\* Claims about closed documents (checked under SpecSession)
\* ------------------------------------------------------------------------
\* C26: once a document is closed, the diagnostics last published for its
\* URI are the empty list: no pass that waited on the debounce timer or on a
\* fetch when the document was closed publishes its findings for it
\* afterwards.
C26_ClosedDocumentStaysClear ==
    \A d \in Docs : docState[d] = "closed" => lastPub[d].diagnostics = <<>>

\* The entries of all keys but k are left as they are by the step.
OthersUnchanged(k) ==
    \A o \in Keys \ {k} :
        /\ cache'[o] = cache[o]
        /\ cacheTimestamps'[o] = cacheTimestamps[o]

\* C29: a getCached of one key leaves the value and the timestamp of every
\* other key unchanged, in its synchronous part (a hit, or the fetcher is
\* invoked) and when its fetcher settles (a fetch is stored, a stale value is
\* answered, the failure is raised).
C29_KeysIndependent ==
    [][/\ Reads => OthersUnchanged(lastCall'.key)
       /\ \A c \in SettledCalls : OthersUnchanged(c.key)
      ]_vars

\* Two keys have entries stored at different times: the fetch of the second
\* was stored when the first had its entry, and left it as it was.
C29_Witness ==
    /\ lastResult.outcome = "fetched"
    /\ cacheTimestamps[lastResult.key] = now
    /\ \E o \in Keys \ {lastResult.key} :
          /\ cache[o] # Undefined
          /\ cacheTimestamps[o] < now
          /\ fetchCount[o] = 1

\* ------------------------------------------------------------------------
\* Claims about fetches in flight (checked under SpecCache)
\* ------------------------------------------------------------------------
\* C27: a fetch that was in flight when invalidateCache ran does not put its
\* data into the cache when it completes, so that every entry found after an
\* invalidation comes from a fetcher invoked after it.
C27_NoStoreByInvalidatedFetch ==
    [][\A c \in SettledCalls :
          c.invalidated =>
              /\ cache'[c.key] = cache[c.key]
              /\ cacheTimestamps'[c.key] = cacheTimestamps[c.key]
      ]_vars

\* C30: a getCached of a key that has no valid entry invokes the key's
\* fetcher once, also when a fetch of the same key is already in flight, and
\* with a token the call waits for its own request next to those in flight;
\* a fetch that succeeds replaces the entry at its completion, whatever
\* other fetches of the key are still in flight, so that the entry kept is
\* that of the fetch that completed last.
C30_LastCompletedFetchWins ==
    [][/\ Reads =>
            IF isCacheValid(Client, lastCall'.key)
            THEN fetchCount' = fetchCount
            ELSE /\ fetchCount'
                      = [fetchCount EXCEPT ![lastCall'.key] = @ + 1]
                 /\ fetchSends(token) =>
                      /\ Cardinality(calls') = Cardinality(calls) + 1
                      /\ \E c \in calls' : c.id = nextCall' /\ c.key = lastCall'.key
       /\ \A c \in SettledCalls :
            ~lastResult'.fetcherFailed =>
                /\ lastResult'.outcome = "fetched"
                /\ cache'[c.key] = lastResult'.value
                /\ cacheTimestamps'[c.key] = now
       /\ (lastResult.outcome = "fetched" /\ cache[lastResult.key] # Undefined) =>
            cache[lastResult.key] = lastResult.value
      ]_vars

\* Two fetches of one key were in flight together: the one that completed
\* last found the valid entry the other had stored and replaced it with its
\* own, different, data.
C30_Witness ==
    /\ lastResult.outcome = "fetched"
    /\ lastResult.validPrior
    /\ ~lastResult.refresh
    /\ lastResult.prior \in RuntimeData \ {lastResult.value}
    /\ cache[lastResult.key] = lastResult.value
    /\ fetchCount[lastResult.key] = 2
    /\ calls = {}

\* ------------------------------------------------------------------------
\* Claims about refreshes (checked under SpecRefresh)
\* ------------------------------------------------------------------------
\* The last fetcher to settle was a refresh that failed and was answered
\* with the expired value of its key.
AnsweredStale ==
    /\ lastResult.outcome = "stale"
    /\ lastResult.refresh
    /\ lastResult.fetcherFailed
    /\ ~lastResult.validPrior

\* C28: a refresh that fails and is answered with the stale value changes
\* neither the value nor the timestamp of the entry; the entry stays expired,
\* and a getCached of the key made before any other fetch has completed
\* invokes the fetcher again.
C28_FailedRefreshStaysExpired ==
    [][/\ \A k \in SettledKeys :
            lastResult'.outcome = "stale" =>
                /\ lastResult'.key = k
                /\ lastResult'.value = cache[k]
                /\ cache' = cache
                /\ cacheTimestamps' = cacheTimestamps
       /\ AnsweredStale =>
            /\ ~isCacheValid(Client, lastResult.key)
            /\ cache[lastResult.key] = lastResult.value
            /\ (Reads /\ lastCall'.key = lastResult.key) =>
                  /\ lastCall'.invoked
                  /\ fetchCount'[lastResult.key] = fetchCount[lastResult.key] + 1
      ]_vars

\* The entry of a key expired, its refresh failed and was answered with the
\* entry's value, and the read of the key made after that waits for its own
\* fetch.
C28_Witness ==
    /\ AnsweredStale
    /\ lastResult.value = "d1"
    /\ lastCall.key = lastResult.key
    /\ lastCall.invoked
    /\ fetchCount[lastResult.key] = 3
    /\ calls = {[id |-> nextCall, key |-> lastResult.key, refresh |-> TRUE,
                 invalidated |-> FALSE]}

====
